---- MODULE Spec2Model ----
(***************************************************************************)
(* Board-resolution engine of the match-3 game (GameScene): the grid of    *)
(* Cell objects, match and special-pattern detection, power-up creation,   *)
(* power-up activation with chain activation, the pairwise combinations,   *)
(* gravity and refill, the move handlers with their await points, and the  *)
(* deferred second explosion of a fly-away.                                *)
(*                                                                         *)
(* A Cell object is an identity (a number of Ids); its fields live in      *)
(* cell[id], and board[r][c] holds the identity stored in that slot.       *)
(* null is 0 for a cell reference and "none" for a power-up type.          *)
(***************************************************************************)
EXTENDS Integers, Sequences, FiniteSets, TLC

VARIABLES
  board,          \* GameScene.board: slot -> Cell identity
  cell,           \* the fields of every Cell object
  rnd,            \* state of the seeded random source Phaser.Math.RND
  selectedCell,   \* GameScene.selectedCell (0 = null)
  draggedCell,    \* GameScene.draggedCell (0 = null)
  moveInProgress, \* GameScene.moveInProgress
  score,          \* GameScene.score
  moves,          \* GameScene.moves
  isGameOver,     \* GameScene.isGameOver
  gameOverMsg,    \* message of the last gameOver() call ("" = none)
  debugMode,      \* GameScene.debugMode
  session,        \* GameSession: moves and score of the current session
  spawned,        \* number of gameDebug.spawnPowerup commands issued so far
  h,              \* the running move handler: position and locals
  fly,            \* pending animateFlyAway tasks: position and locals
  call,           \* last direct call of a scene method and what it returned
  rateLimitStore, \* api/shared/rateLimit: identifier -> RateLimitEntry
  clock,          \* Date.now() of the last call the API process served
  requests        \* the checkRateLimit calls served so far and their results

vars == <<board, cell, rnd, selectedCell, draggedCell, moveInProgress, score,
          moves, isGameOver, gameOverMsg, debugMode, session, spawned, h, fly, call,
          rateLimitStore, clock, requests>>

\* the state of the API process, which no step of the game touches
api == <<rateLimitStore, clock, requests>>

\* rateLimitStore = new Map()
emptyStore == [identifier \in {} |-> 0]

\* NUMBER_OF_CELLS_PER_ROW: every test board of loadTestBoard is 8 x 8
size == 8
explosionThreshold == 3

gems == <<"blue", "green", "orange", "red", "white", "yellow">>

PowerUpTypes == {"horizontal-rocket", "vertical-rocket", "tnt", "color-bomb", "fly-away"}

Idx == 0 .. (size - 1)
Ids == 1 .. (size * size)

Range(s) == {s[i] : i \in 1 .. Len(s)}

\* a loop's statements run in order: a state (a record) is evaluated in full
\* before the next part of a loop runs on it, which keeps the evaluation of a
\* loop split in halves shallow; every record satisfies this
Settled(rec) == DOMAIN rec # {}

\* ---------------------------------------------------------------- grid

\* createEmptyBoard: one fresh Cell per slot, empty, no color, no power-up
createEmptyBoard ==
  [board |-> [r \in Idx |-> [c \in Idx |-> r * size + c + 1]],
   cell  |-> [id \in Ids |-> [row |-> (id - 1) \div size, column |-> (id - 1) % size,
                              color |-> "null", empty |-> TRUE, powerup |-> "none"]]]

At(st, r, c) == st.cell[st.board[r][c]]

InBounds(r, c) == r >= 0 /\ r < size /\ c >= 0 /\ c < size

MarkEmpty(st, id) == [st EXCEPT !.cell[id].empty = TRUE]

\* a swap that exchanges the position fields and leaves the slots as they are
swapCellsNoSlots(st, firstCell, secondCell) ==
  LET f == st.cell[firstCell]
      s == st.cell[secondCell]
  IN [st EXCEPT !.cell[firstCell].row = s.row, !.cell[firstCell].column = s.column,
                !.cell[secondCell].row = f.row, !.cell[secondCell].column = f.column]

swapCells(st, firstCell, secondCell) ==
  LET f == st.cell[firstCell]
      s == st.cell[secondCell]
      c1 == [st.cell EXCEPT ![firstCell].row = s.row, ![firstCell].column = s.column,
                            ![secondCell].row = f.row, ![secondCell].column = f.column]
      b1 == [st.board EXCEPT ![c1[firstCell].row][c1[firstCell].column] = firstCell]
      b2 == [b1 EXCEPT ![c1[secondCell].row][c1[secondCell].column] = secondCell]
  IN [st EXCEPT !.cell = c1, !.board = b2]

cellsAreNeighbours(st, cell1, cell2) ==
  LET a == st.cell[cell1]
      b == st.cell[cell2]
  IN \/ (a.row = b.row /\ (a.column = b.column + 1 \/ a.column = b.column - 1))
     \/ (a.column = b.column /\ (a.row = b.row + 1 \/ a.row = b.row - 1))

\* getNeighbors: up, down, left, right, in that order
getNeighbors(st, id) ==
  LET row == st.cell[id].row
      column == st.cell[id].column
  IN (IF row > 0 THEN <<st.board[row - 1][column]>> ELSE <<>>)
     \o (IF row < size - 1 THEN <<st.board[row + 1][column]>> ELSE <<>>)
     \o (IF column > 0 THEN <<st.board[row][column - 1]>> ELSE <<>>)
     \o (IF column < size - 1 THEN <<st.board[row][column + 1]>> ELSE <<>>)

\* ---------------------------------------------------------------- random source

\* one step of the seeded generator behind Phaser.Math.RND
nextRnd(x) == (x * 5 + 3) % 16

\* Phaser.Math.RND.pick(array): an element of the array, the generator advances
pick(st, array) == array[(st.rnd % Len(array)) + 1]

advance(st) == [st EXCEPT !.rnd = nextRnd(st.rnd)]

\* ---------------------------------------------------------------- match detection

shouldExplodeHorizontally(st, id) ==
  LET row == st.cell[id].row
      column == st.cell[id].column
  IN \E startPosition \in (column - explosionThreshold + 1) .. column :
       LET endPosition == startPosition + explosionThreshold - 1
       IN /\ startPosition >= 0
          /\ endPosition < size
          /\ \A index \in startPosition .. (endPosition - 1) :
               At(st, row, index).color = At(st, row, index + 1).color

shouldExplodeVertically(st, id) ==
  LET row == st.cell[id].row
      column == st.cell[id].column
  IN \E startPosition \in (row - explosionThreshold + 1) .. row :
       LET endPosition == startPosition + explosionThreshold - 1
       IN /\ startPosition >= 0
          /\ endPosition < size
          /\ \A index \in startPosition .. (endPosition - 1) :
               At(st, index, column).color = At(st, index + 1, column).color

shouldExplodeIgnoringPowerup(st, id) ==
  shouldExplodeHorizontally(st, id) \/ shouldExplodeVertically(st, id)

\* a shouldExplode that looks along the row only
shouldExplodeInRow(st, id) ==
  IF st.cell[id].powerup # "none" THEN FALSE
  ELSE shouldExplodeHorizontally(st, id)

shouldExplode(st, id) ==
  IF st.cell[id].powerup # "none" THEN FALSE
  ELSE shouldExplodeHorizontally(st, id) \/ shouldExplodeVertically(st, id)

\* an inner while that stops after three cells
runEndWithinThree(st, line, i, j) ==
  IF j <= Len(line) /\ st.cell[line[j]].color = st.cell[line[i]].color
  THEN IF j + 1 <= Len(line) /\ st.cell[line[j + 1]].color = st.cell[line[i]].color
       THEN j + 2
       ELSE j + 1
  ELSE j

RECURSIVE runEnd(_, _, _, _)
\* the inner while of getExplodingChainsOnLine: the first j > i (1-based) whose
\* color differs from line[i], or Len(line) + 1
runEnd(st, line, i, j) ==
  IF j <= Len(line) /\ st.cell[line[j]].color = st.cell[line[i]].color
  THEN runEnd(st, line, i, j + 1)
  ELSE j

RECURSIVE chainsFrom(_, _, _, _)
chainsFrom(st, line, i, chains) ==
  IF i > Len(line) THEN chains
  ELSE LET j == runEnd(st, line, i, i + 1)
       IN IF j - i >= explosionThreshold
          THEN chainsFrom(st, line, j, Append(chains, SubSeq(line, i, j - 1)))
          ELSE chainsFrom(st, line, i + 1, chains)

getExplodingChainsOnLine(st, line) == chainsFrom(st, line, 1, <<>>)

rowLine(st, r) == [i \in 1 .. size |-> st.board[r][i - 1]]
columnLine(st, c) == [i \in 1 .. size |-> st.board[i - 1][c]]

RECURSIVE chainsOfLines(_, _, _, _)
chainsOfLines(st, k, vertical, chains) ==
  IF k >= size THEN chains
  ELSE chainsOfLines(st, k + 1, vertical,
         chains \o getExplodingChainsOnLine(st,
                     IF vertical THEN columnLine(st, k) ELSE rowLine(st, k)))

\* rows first, then the columns of the transposed matrix
getExplodingChains(st) ==
  chainsOfLines(st, 0, TRUE, chainsOfLines(st, 0, FALSE, <<>>))

\* ---------------------------------------------------------------- special patterns

plainColored(st, id, color) ==
  /\ ~st.cell[id].empty
  /\ st.cell[id].powerup = "none"
  /\ st.cell[id].color = color

\* one anchor of the first loop of detectSpecialPatterns (2x2 squares)
squareStep(st, acc, k) ==
  LET row == k \div (size - 1)
      col == k % (size - 1)
      topLeft == st.board[row][col]
      topRight == st.board[row][col + 1]
      bottomLeft == st.board[row + 1][col]
      bottomRight == st.board[row + 1][col + 1]
      squareCells == <<topLeft, topRight, bottomLeft, bottomRight>>
  IN IF \E i \in 1 .. 4 : squareCells[i] \in acc.usedCells THEN acc
     ELSE IF /\ ~st.cell[topLeft].empty
             /\ st.cell[topLeft].powerup = "none"
             /\ st.cell[topLeft].color = st.cell[topRight].color
             /\ st.cell[topLeft].color = st.cell[bottomLeft].color
             /\ st.cell[topLeft].color = st.cell[bottomRight].color
          THEN [patterns |-> Append(acc.patterns,
                               [cell |-> topLeft, type |-> "fly-away",
                                cells |-> squareCells]),
                usedCells |-> acc.usedCells \cup Range(squareCells)]
          ELSE acc

RECURSIVE detectSquares(_, _, _, _)
\* the anchors lo..hi in row-major order, one after the other
detectSquares(st, acc, lo, hi) ==
  IF lo > hi \/ ~Settled(acc) THEN acc
  ELSE IF lo = hi THEN squareStep(st, acc, lo)
  ELSE detectSquares(st, detectSquares(st, acc, lo, (lo + hi) \div 2),
                     ((lo + hi) \div 2) + 1, hi)

\* the four rotations of the L around a center, in the order the code tries
\* them: right+up, left+up, right+down, left+down
lShapeFits(row, col, o) ==
  CASE o = 1 -> col <= size - 3 /\ row >= 2
    [] o = 2 -> col >= 2 /\ row >= 2
    [] o = 3 -> col <= size - 3 /\ row <= size - 3
    [] OTHER -> col >= 2 /\ row <= size - 3

lShapeCells(st, row, col, o) ==
  LET dc == IF o \in {1, 3} THEN 1 ELSE -1
      dr == IF o \in {1, 2} THEN -1 ELSE 1
  IN <<st.board[row][col], st.board[row][col + dc], st.board[row][col + 2 * dc],
       st.board[row + dr][col], st.board[row + 2 * dr][col]>>

lShapeMatches(st, row, col, o, usedCells) ==
  /\ lShapeFits(row, col, o)
  /\ LET lCells == lShapeCells(st, row, col, o)
         center == st.board[row][col]
     IN /\ \A i \in 1 .. 5 : plainColored(st, lCells[i], st.cell[center].color)
        /\ \A i \in 1 .. 5 : lCells[i] \notin usedCells

\* one center of the second loop of detectSpecialPatterns (L shapes): the first
\* rotation that matches is taken
lShapeStep(st, acc, k) ==
  LET row == k \div size
      col == k % size
      center == st.board[row][col]
  IN IF st.cell[center].empty \/ st.cell[center].powerup # "none"
        \/ center \in acc.usedCells
     THEN acc
     ELSE LET os == {o \in 1 .. 4 : lShapeMatches(st, row, col, o, acc.usedCells)}
          IN IF os = {} THEN acc
             ELSE LET o == CHOOSE x \in os : \A y \in os : x <= y
                      lCells == lShapeCells(st, row, col, o)
                  IN [patterns |-> Append(acc.patterns,
                                     [cell |-> center, type |-> "tnt", cells |-> lCells]),
                      usedCells |-> acc.usedCells \cup Range(lCells)]

RECURSIVE detectLShapes(_, _, _, _)
\* the centers lo..hi in row-major order, one after the other
detectLShapes(st, acc, lo, hi) ==
  IF lo > hi \/ ~Settled(acc) THEN acc
  ELSE IF lo = hi THEN lShapeStep(st, acc, lo)
  ELSE detectLShapes(st, detectLShapes(st, acc, lo, (lo + hi) \div 2),
                     ((lo + hi) \div 2) + 1, hi)

detectSpecialPatterns(st) ==
  LET sq == detectSquares(st, [patterns |-> <<>>, usedCells |-> {}],
                          0, (size - 1) * (size - 1) - 1)
  IN detectLShapes(st, sq, 0, size * size - 1).patterns

boardShouldExplode(st) ==
  LET hasRegularMatches == \E id \in Ids : shouldExplode(st, id)
      hasSpecialPatterns == Len(detectSpecialPatterns(st)) > 0
  IN hasRegularMatches \/ hasSpecialPatterns

\* ---------------------------------------------------------------- power-up creation

\* createPowerUp: the cell takes the type and the type's name as its color
createPowerUp(st, powerUpCell, powerUpType) ==
  [st EXCEPT !.cell[powerUpCell].powerup = powerUpType,
             !.cell[powerUpCell].color = powerUpType]

RECURSIVE markAllBut(_, _, _, _)
\* cell.empty = true for every cell of the sequence except index skip (1-based)
markAllBut(st, cells, i, skip) ==
  IF i > Len(cells) THEN st
  ELSE markAllBut(IF i = skip THEN st ELSE MarkEmpty(st, cells[i]), cells, i + 1, skip)

RECURSIVE markAllButCell(_, _, _, _)
markAllButCell(st, cells, i, keep) ==
  IF i > Len(cells) THEN st
  ELSE markAllButCell(IF cells[i] = keep THEN st ELSE MarkEmpty(st, cells[i]),
                      cells, i + 1, keep)

RECURSIVE createFromPatterns(_, _, _)
createFromPatterns(st, specialPatterns, i) ==
  IF i > Len(specialPatterns) THEN st
  ELSE LET pattern == specialPatterns[i]
       IN createFromPatterns(
            createPowerUp(markAllButCell(st, pattern.cells, 1, pattern.cell),
                          pattern.cell, pattern.type),
            specialPatterns, i + 1)

chainPowerUpType(st, chain) ==
  LET isHorizontal == st.cell[chain[1]].row = st.cell[chain[2]].row
  IN IF Len(chain) >= 5 THEN "color-bomb"
     ELSE IF isHorizontal THEN "horizontal-rocket"
     ELSE "vertical-rocket"

\* the first cell of the chain
firstIndex(chain) == 0

\* index of the power-up cell of a chain, 0-based as in the code
middleIndex(chain) == Len(chain) \div 2

RECURSIVE createFromChains(_, _, _, _)
createFromChains(st, chains, specialPatterns, i) ==
  IF i > Len(chains) THEN st
  ELSE LET chain == chains[i]
           isPartOfSpecialPattern ==
             \E p \in 1 .. Len(specialPatterns) :
               \E q \in 1 .. Len(specialPatterns[p].cells) :
                 specialPatterns[p].cells[q] \in Range(chain)
       IN IF isPartOfSpecialPattern \/ Len(chain) < 4
          THEN createFromChains(st, chains, specialPatterns, i + 1)
          ELSE LET powerUpType == chainPowerUpType(st, chain)
                   powerUpCell == chain[middleIndex(chain) + 1]
               IN createFromChains(
                    createPowerUp(markAllBut(st, chain, 1, middleIndex(chain) + 1),
                                  powerUpCell, powerUpType),
                    chains, specialPatterns, i + 1)

\* a createPowerUpsFromChains whose second loop skips no chain
createPowerUpsFromAllChains(st, chains) ==
  createFromChains(createFromPatterns(st, detectSpecialPatterns(st), 1), chains, <<>>, 1)

createPowerUpsFromChains(st, chains) ==
  LET specialPatterns == detectSpecialPatterns(st)
  IN createFromChains(createFromPatterns(st, specialPatterns, 1),
                      chains, specialPatterns, 1)

\* ---------------------------------------------------------------- power-up activation

\* a row without its last cell
rowPositionsButLast(r) == [i \in 1 .. size - 1 |-> <<r, i - 1>>]

rowPositions(r) == [i \in 1 .. size |-> <<r, i - 1>>]
columnPositions(c) == [i \in 1 .. size |-> <<i - 1, c>>]
allPositions == [i \in 1 .. size * size |-> <<(i - 1) \div size, (i - 1) % size>>]

inBoundsPos(p) == InBounds(p[1], p[2])

\* a cross that stops one step from (r, c)
crossPositionsOneStep(r, c, radius) ==
  SelectSeq(<<<<r - 1, c>>, <<r + 1, c>>, <<r, c - 1>>, <<r, c + 1>>>>, inBoundsPos)

\* the loop "for dir of [up, down, left, right], for distance 1..radius" around
\* (r, c), keeping the positions that are on the board
crossPositions(r, c, radius) ==
  LET dr == <<-1, 1, 0, 0>>
      dc == <<0, 0, -1, 1>>
      raw == [k \in 1 .. 4 * radius |->
                LET d == ((k - 1) \div radius) + 1
                    distance == ((k - 1) % radius) + 1
                IN <<r + dr[d] * distance, c + dc[d] * distance>>]
  IN SelectSeq(raw, inBoundsPos)

\* a block that reaches one step from (r, c) only
blockPositionsOneStep(r, c, rr, cc) ==
  SelectSeq([k \in 1 .. 9 |-> <<r - 1 + ((k - 1) \div 3), c - 1 + ((k - 1) % 3)>>],
            inBoundsPos)

\* the rectangle of offsets -rr..rr by -cc..cc around (r, c), row-major
blockPositions(r, c, rr, cc) ==
  LET w == 2 * cc + 1
      raw == [k \in 1 .. (2 * rr + 1) * w |->
                <<r - rr + ((k - 1) \div w), c - cc + ((k - 1) % w)>>]
  IN SelectSeq(raw, inBoundsPos)

getAdjacentGemColor(st, id) ==
  LET neighbors == getNeighbors(st, id)
      ok == {i \in 1 .. Len(neighbors) :
               /\ ~st.cell[neighbors[i]].empty
               /\ st.cell[neighbors[i]].powerup = "none"
               /\ st.cell[neighbors[i]].color # "null"}
  IN IF ok = {} THEN "null"
     ELSE st.cell[neighbors[CHOOSE i \in ok : \A j \in ok : i <= j]].color

matchCount(st, id) ==
  LET neighbors == getNeighbors(st, id)
  IN Cardinality({i \in 1 .. Len(neighbors) :
                    plainColored(st, neighbors[i], st.cell[id].color)})

\* findBestFlyAwayTarget: row-major scan, a strictly better count replaces the
\* best so far, which starts at 0; 0 = null
findBestFlyAwayTarget(st, fromCell, excludeCells) ==
  LET cand == {k \in 1 .. size * size :
                 LET c == st.board[allPositions[k][1]][allPositions[k][2]]
                 IN /\ ~st.cell[c].empty
                    /\ st.cell[c].powerup = "none"
                    /\ c # fromCell
                    /\ c \notin Range(excludeCells)
                    /\ matchCount(st, c) > 0}
      idOf(k) == st.board[allPositions[k][1]][allPositions[k][2]]
  IN IF cand = {} THEN 0
     ELSE idOf(CHOOSE k \in cand :
                 \A j \in cand : \/ matchCount(st, idOf(j)) < matchCount(st, idOf(k))
                                 \/ (matchCount(st, idOf(j)) = matchCount(st, idOf(k))
                                     /\ k <= j))

\* animateFlyAway up to its first tween: the task waits for the flight
animateFlyAway(st, fromCell, toCell) ==
  [st EXCEPT !.fly = Append(@, [to |-> toCell, pc |-> "flying", chains |-> <<>>,
                                passes |-> 0])]

\* order of the two type names after Array.sort()
typeRank(t) ==
  CASE t = "color-bomb" -> 1
    [] t = "fly-away" -> 2
    [] t = "horizontal-rocket" -> 3
    [] t = "tnt" -> 4
    [] t = "vertical-rocket" -> 5
    [] OTHER -> 6

\* the two type names in the order of the call
unsortedCombo(type1, type2) == <<type1, type2>>

sortedCombo(type1, type2) ==
  IF typeRank(type1) <= typeRank(type2) THEN <<type1, type2>> ELSE <<type2, type1>>

RECURSIVE triggerPowerUp(_, _, _)
RECURSIVE executeCombination(_, _, _)
RECURSIVE hitCells(_, _, _, _, _, _)
RECURSIVE comboColorLoop(_, _, _, _, _, _, _)
RECURSIVE tripleMissile(_, _, _, _, _, _)

\* one footprint cell: a power-up other than the two given cells is
\* chain-activated, any other cell is marked empty
hit(st, targetCell, cell1, cell2) ==
  IF st.cell[targetCell].powerup # "none" /\ targetCell # cell1 /\ targetCell # cell2
  THEN triggerPowerUp(st, targetCell, 0)
  ELSE MarkEmpty(st, targetCell)

\* the footprint cells ps[lo..hi], one after the other
hitCells(st, ps, lo, hi, cell1, cell2) ==
  IF lo > hi \/ ~Settled(st) THEN st
  ELSE IF lo = hi THEN hit(st, st.board[ps[lo][1]][ps[lo][2]], cell1, cell2)
  ELSE hitCells(hitCells(st, ps, lo, (lo + hi) \div 2, cell1, cell2),
                ps, ((lo + hi) \div 2) + 1, hi, cell1, cell2)

hitAll(st, ps, cell1, cell2) == hitCells(st, ps, 1, Len(ps), cell1, cell2)

\* a color-bomb that ignores the gem it was swapped with
colorBombTargetAdjacent(st, id, swappedWith) == getAdjacentGemColor(st, id)

colorBombTarget(st, id, swappedWith) ==
  IF /\ swappedWith # 0
     /\ ~st.cell[swappedWith].empty
     /\ st.cell[swappedWith].powerup = "none"
     /\ st.cell[swappedWith].color # "null"
  THEN st.cell[swappedWith].color
  ELSE getAdjacentGemColor(st, id)

positionsOfColor(st, color) ==
  SelectSeq(allPositions, LAMBDA p : At(st, p[1], p[2]).color = color)

\* the cells the switch statement of triggerPowerUp goes through for the type
\* of the activated cell, in its order
singlePositions(st, id, powerUpType, swappedWith) ==
  LET row == st.cell[id].row
      column == st.cell[id].column
      targetColor == colorBombTarget(st, id, swappedWith)
  IN CASE powerUpType = "horizontal-rocket" -> rowPositions(row)
       [] powerUpType = "vertical-rocket" -> columnPositions(column)
       [] powerUpType = "color-bomb" ->
            IF targetColor = "null" THEN <<>> ELSE positionsOfColor(st, targetColor)
       [] powerUpType = "tnt" -> crossPositions(row, column, 2)
       [] powerUpType = "fly-away" ->
            IF findBestFlyAwayTarget(st, id, <<>>) = 0 THEN <<>>
            ELSE crossPositions(row, column, 1)
       [] OTHER -> <<>>

\* the fly-away case after its first explosion: the flight to the target found
\* before the explosion, if there was one
flyToTarget(st, id, powerUpType, bestTarget) ==
  IF powerUpType = "fly-away" /\ bestTarget # 0
  THEN animateFlyAway(st, id, bestTarget)
  ELSE st

\* an activation after which the cell holds its power-up again
activateKeepingPowerUp(st, id, powerUpType, swappedWith) ==
  [hitAll(st, singlePositions(st, id, powerUpType, swappedWith),
          IF powerUpType \in {"horizontal-rocket", "vertical-rocket"} THEN id ELSE 0, 0)
     EXCEPT !.cell[id].powerup = powerUpType]

\* the cell loses its power-up and is marked empty, then the cells of its type
\* are hit
activate(st, id, powerUpType, swappedWith) ==
  flyToTarget(
    hitAll(st, singlePositions(st, id, powerUpType, swappedWith),
           IF powerUpType \in {"horizontal-rocket", "vertical-rocket"} THEN id ELSE 0, 0),
    id, powerUpType,
    IF powerUpType = "fly-away" THEN findBestFlyAwayTarget(st, id, <<>>) ELSE 0)

\* a triggerPowerUp without the hand-over to executeCombination
triggerPowerUpAlone(st, id, swappedWith) ==
  IF st.cell[id].powerup = "none" THEN st
  ELSE activate([st EXCEPT !.cell[id].powerup = "none", !.cell[id].empty = TRUE,
                            !.trig = Append(@, id)],
                id, st.cell[id].powerup, swappedWith)

triggerPowerUp(st, id, swappedWith) ==
  IF st.cell[id].powerup = "none" THEN st
  ELSE IF swappedWith # 0 /\ st.cell[swappedWith].powerup # "none"
  THEN executeCombination(st, id, swappedWith)
  ELSE activate([st EXCEPT !.cell[id].powerup = "none", !.cell[id].empty = TRUE,
                            !.trig = Append(@, id)],
                id, st.cell[id].powerup, swappedWith)

\* ---------------------------------------------------------------- combinations

\* getRandomGemColor() is called only when no adjacent gem color is found
comboColor(st, position) ==
  LET adjacent == getAdjacentGemColor(st, position)
  IN IF adjacent # "null" THEN [color |-> adjacent, st |-> st]
     ELSE [color |-> pick(st, gems), st |-> advance(st)]

\* one cell of the scan of a color-bomb combination: a cell that has the
\* target color, is not empty and holds no power-up when the scan reaches it
\* gets the combination's blast: its row, its column, or the cell and a cross
comboColorStep(st, k, color, kind, cell1, cell2) ==
  LET row == allPositions[k][1]
      col == allPositions[k][2]
      targetCell == st.board[row][col]
  IN IF plainColored(st, targetCell, color)
     THEN hitAll(IF kind \in {"cross2", "cross1"} THEN MarkEmpty(st, targetCell) ELSE st,
                 CASE kind = "row" -> rowPositions(row)
                   [] kind = "column" -> columnPositions(col)
                   [] kind = "cross2" -> crossPositions(row, col, 2)
                   [] OTHER -> crossPositions(row, col, 1),
                 cell1, cell2)
     ELSE st

\* the cells lo..hi of the row-major scan, one after the other
comboColorLoop(st, lo, hi, color, kind, cell1, cell2) ==
  IF lo > hi \/ ~Settled(st) THEN st
  ELSE IF lo = hi THEN comboColorStep(st, lo, color, kind, cell1, cell2)
  ELSE comboColorLoop(comboColorLoop(st, lo, (lo + hi) \div 2, color, kind, cell1, cell2),
                      ((lo + hi) \div 2) + 1, hi, color, kind, cell1, cell2)

\* fly-away + fly-away: up to 3 targets, each excluded from the next search
tripleMissile(st, i, targets, position, cell1, cell2) ==
  IF i >= 3 THEN st
  ELSE LET target == findBestFlyAwayTarget(st, position, targets)
       IN IF target = 0 THEN tripleMissile(st, i + 1, targets, position, cell1, cell2)
          ELSE tripleMissile(
                 hitAll(MarkEmpty(st, target),
                          crossPositions(st.cell[target].row, st.cell[target].column, 1),
                          cell1, cell2),
                 i + 1, Append(targets, target), position, cell1, cell2)

RECURSIVE lineWithCrosses(_, _, _)
\* rocket + tnt: every cell of the line, each followed by the cross of radius 2
\* around it
lineWithCrosses(line, i, acc) ==
  IF i > Len(line) THEN acc
  ELSE lineWithCrosses(line, i + 1,
         acc \o <<line[i]>> \o crossPositions(line[i][1], line[i][2], 2))

\* the scan of a color-bomb combination with the color comboColor found
comboColorScan(cc, kind, cell1, cell2) ==
  comboColorLoop(cc.st, 1, size * size, cc.color, kind, cell1, cell2)

\* the target of a fly-away combined with a rocket or a tnt: the best target,
\* or the position of the combination when there is none
comboTarget(st, position) ==
  IF findBestFlyAwayTarget(st, position, <<>>) # 0
  THEN findBestFlyAwayTarget(st, position, <<>>)
  ELSE position

\* the cells a combination of rockets, tnt and fly-away goes through, in its order
comboPositions(st, combo, position) ==
  LET prow == st.cell[position].row
      pcol == st.cell[position].column
      target == comboTarget(st, position)
  IN CASE combo = <<"horizontal-rocket", "vertical-rocket">> ->
            rowPositions(prow) \o columnPositions(pcol)
       [] combo = <<"horizontal-rocket", "horizontal-rocket">> ->
            blockPositions(prow, pcol, 1, size)
       [] combo = <<"vertical-rocket", "vertical-rocket">> ->
            (IF pcol - 1 >= 0 THEN columnPositions(pcol - 1) ELSE <<>>)
              \o columnPositions(pcol)
              \o (IF pcol + 1 < size THEN columnPositions(pcol + 1) ELSE <<>>)
       [] combo = <<"tnt", "tnt">> -> blockPositions(prow, pcol, 2, 2)
       [] combo = <<"horizontal-rocket", "tnt">> ->
            lineWithCrosses(rowPositions(prow), 1, <<>>)
       [] combo = <<"tnt", "vertical-rocket">> ->
            lineWithCrosses(columnPositions(pcol), 1, <<>>)
       [] combo = <<"fly-away", "horizontal-rocket">> ->
            rowPositions(IF findBestFlyAwayTarget(st, position, <<>>) # 0
                         THEN st.cell[target].row ELSE prow)
       [] combo = <<"fly-away", "vertical-rocket">> ->
            columnPositions(IF findBestFlyAwayTarget(st, position, <<>>) # 0
                            THEN st.cell[target].column ELSE pcol)
       [] combo = <<"fly-away", "tnt">> ->
            crossPositions(st.cell[target].row, st.cell[target].column, 4)
       [] OTHER -> <<>>

\* the switch statement of executeCombination, the two cells already cleared
combine(st, combo, cell1, cell2) ==
  CASE combo = <<"color-bomb", "color-bomb">> ->
         [st EXCEPT !.cell = [id \in Ids |->
                                IF id # cell1 /\ id # cell2
                                THEN [st.cell[id] EXCEPT !.empty = TRUE]
                                ELSE st.cell[id]]]
    [] combo[1] = "color-bomb" ->
         comboColorScan(comboColor(st, cell2),
                        CASE combo[2] = "horizontal-rocket" -> "row"
                          [] combo[2] = "vertical-rocket" -> "column"
                          [] combo[2] = "tnt" -> "cross2"
                          [] OTHER -> "cross1",
                        cell1, cell2)
    [] combo = <<"fly-away", "fly-away">> ->
         tripleMissile(st, 0, <<>>, cell2, cell1, cell2)
    [] OTHER ->
         hitAll(IF combo = <<"fly-away", "tnt">>
                THEN MarkEmpty(st, comboTarget(st, cell2)) ELSE st,
                comboPositions(st, combo, cell2), cell1, cell2)

\* executeCombination: both cells lose their power-up and are marked empty;
\* the position of the combination is the second cell
\* a combination that leaves its own two cells on the board
executeCombinationKeepingCells(st, cell1, cell2) ==
  combine([st EXCEPT !.trig = @ \o <<cell1, cell2>>],
          sortedCombo(st.cell[cell1].powerup, st.cell[cell2].powerup), cell1, cell2)

executeCombination(st, cell1, cell2) ==
  combine([st EXCEPT !.cell[cell1].powerup = "none", !.cell[cell1].empty = TRUE,
                     !.cell[cell2].powerup = "none", !.cell[cell2].empty = TRUE,
                     !.trig = @ \o <<cell1, cell2>>],
          sortedCombo(st.cell[cell1].powerup, st.cell[cell2].powerup), cell1, cell2)

\* ---------------------------------------------------------------- destroy, gravity, refill

\* a getCellsToDestroy that takes the cells already marked empty only
getMarkedCellsToDestroy(st) ==
  {id \in Ids : st.cell[id].empty /\ st.cell[id].powerup = "none"}

getCellsToDestroy(st) ==
  {id \in Ids : (shouldExplode(st, id) \/ st.cell[id].empty) /\ st.cell[id].powerup = "none"}

\* destroyCells up to its await: destroyCell marks each cell empty when it is called
destroyCells(st) ==
  LET cellsToDestroy == getCellsToDestroy(st)
  IN [st EXCEPT !.cell = [id \in Ids |-> IF id \in cellsToDestroy
                                         THEN [st.cell[id] EXCEPT !.empty = TRUE]
                                         ELSE st.cell[id]]]

\* the empty cell nearest below the cell
getHighestEmptyCellBelow(st, id) ==
  LET rows == {row \in Idx : row > st.cell[id].row
                             /\ At(st, row, st.cell[id].column).empty}
  IN IF rows = {} THEN 0
     ELSE st.board[CHOOSE r \in rows : \A q \in rows : q >= r][st.cell[id].column]

\* getLowestEmptyCellBelow: scan from the bottom row up to the row below the cell
getLowestEmptyCellBelow(st, id) ==
  LET rows == {row \in Idx : row > st.cell[id].row
                             /\ At(st, row, st.cell[id].column).empty}
  IN IF rows = {} THEN 0
     ELSE st.board[CHOOSE r \in rows : \A q \in rows : q <= r][st.cell[id].column]

\* one cell of makeCellsFall: a non-empty cell with an empty cell below it in
\* its column is swapped with the lowest such cell
fallStep(st, k) ==
  LET column == k \div size
      row == (size - 1) - (k % size)
      c == st.board[row][column]
      lowestEmptyCell == getLowestEmptyCellBelow(st, c)
  IN IF lowestEmptyCell # 0 /\ ~st.cell[c].empty
     THEN swapCells(st, c, lowestEmptyCell)
     ELSE st

RECURSIVE fallFrom(_, _, _)
\* the double loop of makeCellsFall over the steps lo..hi: columns left to
\* right, in each column the rows bottom to top
fallFrom(st, lo, hi) ==
  IF lo > hi \/ ~Settled(st) THEN st
  ELSE IF lo = hi THEN fallStep(st, lo)
  ELSE fallFrom(fallFrom(st, lo, (lo + hi) \div 2), ((lo + hi) \div 2) + 1, hi)

makeCellsFall(st) == fallFrom(st, 0, size * size - 1)

\* a count of the empty cells at the top of a column that stops at one
numberOfEmptyCellsAtMostOne(st, column, n) ==
  IF At(st, 0, column).empty THEN 1 ELSE 0

RECURSIVE numberOfEmptyCells(_, _, _)
numberOfEmptyCells(st, column, n) ==
  IF n < size /\ At(st, n, column).empty THEN numberOfEmptyCells(st, column, n + 1) ELSE n

RECURSIVE refillColumn(_, _, _, _)
refillColumn(st, column, row, n) ==
  IF row >= n THEN st
  ELSE refillColumn(
         advance([st EXCEPT !.cell[st.board[row][column]] =
                    [@ EXCEPT !.color = pick(st, gems), !.empty = FALSE,
                              !.powerup = "none"]]),
         column, row + 1, n)

RECURSIVE refillFrom(_, _)
refillFrom(st, column) ==
  IF column >= size THEN st
  ELSE refillFrom(refillColumn(st, column, 0, numberOfEmptyCells(st, column, 0)),
                  column + 1)

refillBoard(st) == refillFrom(st, 0)

computeScore(chains, cascades) ==
  LET chainScore(i) == 50 * (Len(chains[i]) + 1 - explosionThreshold)
      sum[i \in 0 .. Len(chains)] == IF i = 0 THEN 0 ELSE sum[i - 1] + chainScore(i)
  IN sum[Len(chains)] * (cascades + 1)

\* a winningStep that does not undo the swap with the lower neighbour
winningStepNoRevert(acc, k) ==
  LET st == acc.st
      row == k \div (size - 1)
      column == k % (size - 1)
      c == st.board[row][column]
      right == st.board[row][column + 1]
      down == st.board[row + 1][column]
      r1 == swapCells(st, c, right)
      w1 == IF boardShouldExplode(r1)
            THEN Append(acc.winningMoves, <<c, right>>) ELSE acc.winningMoves
      r2 == swapCells(r1, c, right)
      d1 == swapCells(r2, c, down)
      w2 == IF boardShouldExplode(d1) THEN Append(w1, <<c, down>>) ELSE w1
  IN [winningMoves |-> w2, st |-> d1]

\* one cell of getWinningMoves: the swap with the right neighbour and the swap
\* with the lower neighbour are tried and then undone
winningStep(acc, k) ==
  LET st == acc.st
      row == k \div (size - 1)
      column == k % (size - 1)
      c == st.board[row][column]
      right == st.board[row][column + 1]
      down == st.board[row + 1][column]
      r1 == swapCells(st, c, right)
      w1 == IF boardShouldExplode(r1)
            THEN Append(acc.winningMoves, <<c, right>>) ELSE acc.winningMoves
      r2 == swapCells(r1, c, right)
      d1 == swapCells(r2, c, down)
      w2 == IF boardShouldExplode(d1) THEN Append(w1, <<c, down>>) ELSE w1
      d2 == swapCells(d1, c, down)
  IN [winningMoves |-> w2, st |-> d2]

RECURSIVE winningFrom(_, _, _)
\* the double loop of getWinningMoves over the cells lo..hi: row and column
\* both below size - 1, row-major
winningFrom(acc, lo, hi) ==
  IF lo > hi \/ ~Settled(acc) THEN acc
  ELSE IF lo = hi THEN winningStep(acc, lo)
  ELSE winningFrom(winningFrom(acc, lo, (lo + hi) \div 2), ((lo + hi) \div 2) + 1, hi)

getWinningMoves(st) ==
  winningFrom([winningMoves |-> <<>>, st |-> st], 0, (size - 1) * (size - 1) - 1)

\* ---------------------------------------------------------------- test boards

B == "blue"
G == "green"
O == "orange"
R == "red"
W == "white"
Y == "yellow"

\* loadTestBoard: tntTestBoard
tntTestBoard ==
  <<<<B, R, G, Y, W, O, B, R>>,
    <<R, G, Y, W, O, B, R, G>>,
    <<G, Y, W, O, B, R, G, Y>>,
    <<Y, W, O, B, R, G, Y, W>>,
    <<W, O, B, R, G, Y, W, O>>,
    <<O, B, R, G, Y, W, O, B>>,
    <<B, R, G, Y, W, O, B, R>>,
    <<R, G, Y, W, O, B, R, G>>>>

\* loadTestBoard: flyAwayTestBoard
flyAwayTestBoard ==
  <<<<B, R, G, Y, W, O, B, R>>,
    <<R, G, Y, W, O, B, R, G>>,
    <<G, Y, W, O, B, R, G, Y>>,
    <<Y, W, O, B, R, G, Y, W>>,
    <<W, O, B, B, G, Y, W, O>>,
    <<O, B, B, G, Y, W, O, B>>,
    <<B, R, G, Y, W, O, B, R>>,
    <<R, G, Y, W, O, B, R, G>>>>

\* loadTestBoard: match5
match5Board ==
  <<<<B, B, B, B, B, R, G, Y>>,
    <<R, G, Y, W, O, B, R, G>>,
    <<Y, W, O, B, R, G, Y, W>>,
    <<G, Y, W, O, B, R, G, Y>>,
    <<W, O, B, R, G, Y, W, O>>,
    <<O, B, R, G, Y, W, O, B>>,
    <<B, R, G, Y, W, O, B, R>>,
    <<R, G, Y, W, O, B, R, G>>>>

\* loadTestBoard: lshape
lshapeBoard ==
  <<<<R, R, R, G, Y, W, O, B>>,
    <<B, G, R, W, O, B, R, G>>,
    <<Y, W, R, B, R, G, Y, W>>,
    <<G, Y, W, O, B, R, G, Y>>,
    <<W, O, B, R, G, Y, W, O>>,
    <<O, B, R, G, Y, W, O, B>>,
    <<B, R, G, Y, W, O, B, R>>,
    <<R, G, Y, W, O, B, R, G>>>>

\* loadTestBoard: square
squareBoard ==
  <<<<R, R, G, Y, W, O, B, G>>,
    <<R, R, W, O, B, R, G, Y>>,
    <<Y, W, O, B, R, G, Y, W>>,
    <<G, Y, W, O, B, R, G, Y>>,
    <<W, O, B, R, G, Y, W, O>>,
    <<O, B, R, G, Y, W, O, B>>,
    <<B, R, G, Y, W, O, B, R>>,
    <<R, G, Y, W, O, B, R, G>>>>

\* loadTestBoard: match4h
match4hBoard ==
  <<<<B, B, B, B, R, G, Y, W>>,
    <<R, G, Y, W, O, B, R, G>>,
    <<Y, W, O, B, R, G, Y, W>>,
    <<G, Y, W, O, B, R, G, Y>>,
    <<W, O, B, R, G, Y, W, O>>,
    <<O, B, R, G, Y, W, O, B>>,
    <<B, R, G, Y, W, O, B, R>>,
    <<R, G, Y, W, O, B, R, G>>>>

\* loadTestBoard: match4v
match4vBoard ==
  <<<<R, G, Y, W, O, B, R, G>>,
    <<R, W, O, B, R, G, Y, W>>,
    <<R, Y, W, O, B, R, G, Y>>,
    <<R, O, B, R, G, Y, W, O>>,
    <<W, B, R, G, Y, W, O, B>>,
    <<O, R, G, Y, W, O, B, R>>,
    <<B, G, Y, W, O, B, R, G>>,
    <<Y, Y, W, O, B, R, G, Y>>>>

\* the loops of loadTestBoard over a freshly created board: every cell takes
\* the color of the literal, no power-up, not empty
loadColors(st, rows) ==
  [st EXCEPT !.cell = [id \in Ids |->
     [st.cell[id] EXCEPT !.color = rows[st.cell[id].row + 1][st.cell[id].column + 1],
                         !.powerup = "none", !.empty = FALSE]]]

\* spawnPowerup: refused off the board and on an empty cell
spawnPowerup(st, type, row, col) ==
  IF ~InBounds(row, col) THEN st
  ELSE IF At(st, row, col).empty THEN st
  ELSE [st EXCEPT !.cell[st.board[row][col]].powerup = type,
                  !.cell[st.board[row][col]].color = type]

RECURSIVE spawnAll(_, _, _)
spawnAll(st, spawns, i) ==
  IF i > Len(spawns) THEN st
  ELSE spawnAll(spawnPowerup(st, spawns[i][1], spawns[i][2], spawns[i][3]), spawns, i + 1)

TestBoardNames == {"tnt-test", "fly-away-test", "rocket-flyaway-test", "combo-test",
                   "match5", "lshape", "square", "match4h", "match4v"}

loadTestBoard(st, name) ==
  CASE name = "tnt-test" ->
         spawnPowerup(loadColors(st, tntTestBoard), "tnt", 4, 4)
    [] name = "fly-away-test" ->
         spawnPowerup(loadColors(st, flyAwayTestBoard), "fly-away", 4, 4)
    [] name = "rocket-flyaway-test" ->
         spawnAll(loadColors(st, tntTestBoard),
                  <<<<"horizontal-rocket", 3, 3>>, <<"fly-away", 3, 4>>,
                    <<"vertical-rocket", 5, 3>>, <<"fly-away", 5, 4>>>>, 1)
    [] name = "combo-test" ->
         spawnAll(loadColors(st, tntTestBoard),
                  <<<<"horizontal-rocket", 2, 2>>, <<"vertical-rocket", 2, 3>>,
                    <<"tnt", 2, 5>>, <<"horizontal-rocket", 2, 6>>,
                    <<"tnt", 4, 2>>, <<"tnt", 4, 3>>,
                    <<"color-bomb", 4, 5>>, <<"vertical-rocket", 4, 6>>,
                    <<"fly-away", 6, 2>>, <<"fly-away", 6, 3>>,
                    <<"color-bomb", 6, 5>>, <<"color-bomb", 6, 6>>>>, 1)
    [] name = "match5" -> loadColors(st, match5Board)
    [] name = "lshape" -> loadColors(st, lshapeBoard)
    [] name = "square" -> loadColors(st, squareBoard)
    [] name = "match4h" -> loadColors(st, match4hBoard)
    [] name = "match4v" -> loadColors(st, match4vBoard)
    [] OTHER -> st

\* a board initBoard can draw: the last row as in lastRowBoard, and a first
\* row in which swapping the third and the fourth cell lines up three yellow
drawnBoard ==
  <<<<Y, Y, G, Y, W, O, B, R>>,
    <<R, G, Y, W, O, B, R, G>>,
    <<G, Y, W, O, B, R, G, Y>>,
    <<Y, W, O, B, R, G, Y, W>>,
    <<W, O, B, R, G, Y, W, O>>,
    <<O, B, R, G, Y, W, O, B>>,
    <<B, R, G, Y, W, O, B, R>>,
    <<W, W, Y, W, O, B, R, G>>>>

\* a board initBoard can draw: only the last row differs from the diagonal board
lastRowBoard ==
  <<<<B, R, G, Y, W, O, B, R>>,
    <<R, G, Y, W, O, B, R, G>>,
    <<G, Y, W, O, B, R, G, Y>>,
    <<Y, W, O, B, R, G, Y, W>>,
    <<W, O, B, R, G, Y, W, O>>,
    <<O, B, R, G, Y, W, O, B>>,
    <<B, R, G, Y, W, O, B, R>>,
    <<W, W, Y, W, O, B, R, G>>>>

\* wouldCreate2x2Square: the cell is a corner of a same-colored square of
\* non-empty cells
wouldCreate2x2Square(st, id) ==
  LET row == st.cell[id].row
      column == st.cell[id].column
      color == st.cell[id].color
      same(r, c) == ~At(st, r, c).empty /\ At(st, r, c).color = color
  IN \/ /\ row < size - 1 /\ column < size - 1
        /\ same(row, column + 1) /\ same(row + 1, column) /\ same(row + 1, column + 1)
     \/ /\ row < size - 1 /\ column > 0
        /\ same(row, column - 1) /\ same(row + 1, column - 1) /\ same(row + 1, column)
     \/ /\ row > 0 /\ column < size - 1
        /\ same(row - 1, column) /\ same(row - 1, column + 1) /\ same(row, column + 1)
     \/ /\ row > 0 /\ column > 0
        /\ same(row - 1, column - 1) /\ same(row - 1, column) /\ same(row, column - 1)

\* initBoard: with a test board requested the board is loaded from it;
\* otherwise every cell draws one of its possible colors, those that complete
\* neither a run of three nor a square with the cells filled before it. A run
\* or a square of the finished board is complete when its last cell is filled,
\* so rows is a possible draw exactly when no cell of the finished board fails
\* the two tests.
initBoard(st, testBoard, rows) ==
  IF testBoard # "" THEN loadTestBoard(st, testBoard) ELSE loadColors(st, rows)

possibleDraw(rows) ==
  LET st == loadColors([board |-> createEmptyBoard.board, cell |-> createEmptyBoard.cell,
                        fly |-> <<>>, rnd |-> 0, trig |-> <<>>], rows)
  IN \A id \in Ids : ~shouldExplode(st, id) /\ ~wouldCreate2x2Square(st, id)

\* ---------------------------------------------------------------- state

\* the mutable state the synchronous code of the scene works on
\* the scene a method runs on; trig collects, in order, the cells whose power-up
\* the method activates
Scene == [board |-> board, cell |-> cell, fly |-> fly, rnd |-> rnd, trig |-> <<>>]

Commit(st) ==
  /\ board' = st.board
  /\ cell' = st.cell
  /\ fly' = st.fly
  /\ rnd' = st.rnd

\* a handler that is not running; outcome tells how the last move ended, and
\* start holds the cells, grid, score and move counter a running handler began with
idle == [pc |-> "idle", firstCell |-> 0, secondCell |-> 0, hasPowerUp |-> FALSE,
         cascades |-> 0, chains |-> <<>>, outcome |-> "none", start |-> <<>>]

noCall == [op |-> "none", target |-> 0, with |-> 0, pre |-> <<>>, preBoard |-> <<>>,
           result |-> <<>>, resultBoard |-> <<>>, chains |-> <<>>, trig |-> <<>>]

\* create(): the scene after initBoard, setScore(0) and setMoves(initialMoves)
InitWith(testBoard, rows, seed, initialMoves, debug) ==
  LET st == initBoard([board |-> createEmptyBoard.board, cell |-> createEmptyBoard.cell,
                       fly |-> <<>>, rnd |-> seed, trig |-> <<>>], testBoard, rows)
  IN /\ testBoard = "" => possibleDraw(rows)
     /\ board = st.board
     /\ cell = st.cell
     /\ fly = <<>>
     /\ rnd = seed
     /\ selectedCell = 0
     /\ draggedCell = 0
     /\ moveInProgress = FALSE
     /\ score = 0
     /\ moves = initialMoves
     /\ isGameOver = FALSE
     /\ gameOverMsg = ""
     /\ debugMode = debug
     /\ rateLimitStore = emptyStore
     /\ clock = 0
     /\ requests = <<>>
     /\ session = [moves |-> 0, score |-> 0]
     /\ spawned = 0
     /\ h = idle
     /\ call = noCall

\* setScore: the scene's score and the session's copy of it
setScore(newScore) ==
  /\ score' = newScore
  /\ session' = [session EXCEPT !.score = newScore]

\* one pass of the cascade loop up to the await of destroyCells
cascadePass(st) ==
  destroyCells(createPowerUpsFromChains(st, getExplodingChains(st)))

\* ---------------------------------------------------------------- fly-away completion
\* The callbacks animateFlyAway leaves behind: the explosion at the target when
\* the flight and the orbit are over, and the delayed fall, refill and cascade.

\* onComplete of the orbit: the four neighbours of the target cell, then the
\* target cell itself
targetNeighbour(st, toCell, k) ==
  LET dirs == <<<<-1, 0>>, <<1, 0>>, <<0, -1>>, <<0, 1>>>>
      targetRow == st.cell[toCell].row + dirs[k][1]
      targetCol == st.cell[toCell].column + dirs[k][2]
  IN IF ~InBounds(targetRow, targetCol) THEN st
     ELSE LET targetCell == st.board[targetRow][targetCol]
          IN IF st.cell[targetCell].powerup # "none"
             THEN triggerPowerUp(st, targetCell, 0)
             ELSE IF ~st.cell[targetCell].empty THEN MarkEmpty(st, targetCell)
             ELSE st

RECURSIVE targetNeighbours(_, _, _)
targetNeighbours(st, toCell, k) ==
  IF k > 4 THEN st
  ELSE targetNeighbours(targetNeighbour(st, toCell, k), toCell, k + 1)

targetItself(st, toCell) ==
  IF ~st.cell[toCell].empty THEN MarkEmpty(st, toCell) ELSE st

targetExplosion(st, toCell) == targetItself(targetNeighbours(st, toCell, 1), toCell)

FlyOthersUnchanged ==
  UNCHANGED <<selectedCell, draggedCell, moveInProgress, moves, isGameOver,
              gameOverMsg, debugMode, api, spawned, h>>

\* a call of a method of the scene is over: the scene it leaves and the record
\* of the call
Returned(st, op, target, result) ==
  /\ Commit(st)
  /\ call' = [noCall EXCEPT !.op = op, !.target = target, !.pre = cell,
                            !.preBoard = board, !.trig = st.trig,
                            !.result = IF op = "getWinningMoves" THEN result ELSE st.cell]

atStage(st, i, pc) == [st EXCEPT !.fly[i].pc = pc]

FlyAwayLands(i) ==
  /\ i \in 1 .. Len(fly)
  /\ fly[i].pc = "flying"
  /\ Returned(atStage(targetExplosion(Scene, fly[i].to), i, "exploded"),
              "targetExplosion", fly[i].to, <<>>)
  /\ FlyOthersUnchanged
  /\ UNCHANGED <<score, session>>

\* the delayed callback up to its first await, and the loop's makeCellsFall
FlyAwayFall(i) ==
  /\ i \in 1 .. Len(fly)
  /\ fly[i].pc \in {"exploded", "f_destroyed"}
  /\ Commit([atStage(makeCellsFall(Scene), i, "f_fallen") EXCEPT
               !.fly[i].passes = IF fly[i].pc = "f_destroyed" THEN @ + 1 ELSE @])
  /\ IF fly[i].pc = "f_destroyed"
     THEN setScore(score + computeScore(fly[i].chains, 0))
     ELSE UNCHANGED <<score, session>>
  /\ FlyOthersUnchanged
  /\ UNCHANGED call

FlyAwayRefill(i) ==
  /\ i \in 1 .. Len(fly)
  /\ fly[i].pc = "f_fallen"
  /\ Commit(atStage(refillBoard(Scene), i, "f_refilled"))
  /\ FlyOthersUnchanged
  /\ UNCHANGED <<score, session, call>>

\* the head of the callback's cascade loop: another pass up to the await of
\* destroyCells, or the end of the callback
FlyAwayCascade(i) ==
  /\ i \in 1 .. Len(fly)
  /\ fly[i].pc = "f_refilled"
  /\ IF boardShouldExplode(Scene)
     THEN Commit([atStage(cascadePass(Scene), i, "f_destroyed") EXCEPT
                    !.fly[i].chains = getExplodingChains(Scene)])
     ELSE Commit([Scene EXCEPT !.fly = [k \in 1 .. Len(fly) - 1 |->
                                          IF k < i THEN fly[k] ELSE fly[k + 1]]])
  /\ FlyOthersUnchanged
  /\ UNCHANGED <<score, session, call>>

FlyAwayStep ==
  \E i \in 1 .. Len(fly) :
    FlyAwayLands(i) \/ FlyAwayFall(i) \/ FlyAwayRefill(i) \/ FlyAwayCascade(i)

\* ---------------------------------------------------------------- moves
\* onPointerDown and onDragEnd up to each await, and the steps that resume them.
\* onDragEnd repeats the statements of onPointerDown after the swap.

MaxMoves == 1

\* the cells the player points at
Pointers == {<<4, 3>>, <<4, 4>>, <<0, 2>>, <<0, 3>>}

\* the cells the player drags
Dragged == {<<4, 4>>, <<0, 3>>}

Snapshot(st, theScore, theMoves) ==
  [cell |-> st.cell, board |-> st.board, score |-> theScore, moves |-> theMoves]

begin(pc, firstCell, secondCell) ==
  [idle EXCEPT !.pc = pc, !.firstCell = firstCell, !.secondCell = secondCell,
               !.start = Snapshot(Scene, score, moves)]

\* a decrementMoves that takes two moves
decrementMovesByTwo ==
  /\ moves' = moves - 2
  /\ session' = [session EXCEPT !.moves = @ + 1]

\* decrementMoves
decrementMoves ==
  /\ moves' = moves - 1
  /\ session' = [session EXCEPT !.moves = @ + 1]

\* gameOver
gameOver(message) ==
  /\ isGameOver' = TRUE
  /\ gameOverMsg' = message

\* the moves of a session that count are bounded
MovesLeft == session.moves < MaxMoves

InputAccepted ==
  /\ ~moveInProgress
  /\ h.pc = "idle"

\* a pointer that is dragging ends the drag before it is pressed again
PointerAccepted ==
  /\ InputAccepted
  /\ draggedCell = 0

\* onPointerDown with no cell selected: selectCell
PointerSelects(row, col) ==
  /\ PointerAccepted
  /\ selectedCell = 0
  /\ selectedCell' = board[row][col]
  /\ UNCHANGED <<board, cell, rnd, fly, draggedCell, moveInProgress, score, moves,
                 isGameOver, gameOverMsg, debugMode, api, session, spawned, h, call>>

\* onPointerDown on the selected cell: a power-up is activated in place up to
\* the await of destroyCells, any other cell is only deselected
PointerOnSelected(row, col) ==
  /\ PointerAccepted
  /\ selectedCell # 0
  /\ selectedCell = board[row][col]
  /\ cell[selectedCell].powerup # "none" => MovesLeft
  /\ selectedCell' = 0
  /\ IF cell[selectedCell].powerup # "none"
     THEN /\ moveInProgress' = TRUE
          /\ Commit(destroyCells(triggerPowerUp(Scene, selectedCell, 0)))
          /\ h' = [begin("pu_destroyed", selectedCell, selectedCell) EXCEPT
                     !.hasPowerUp = TRUE]
     ELSE UNCHANGED <<board, cell, rnd, fly, moveInProgress, h>>
  /\ UNCHANGED <<draggedCell, score, moves, isGameOver, gameOverMsg, debugMode, api,
                 session, spawned, call>>

\* onPointerDown on a cell that is no neighbour of the selected one: the new
\* cell becomes the selection
PointerReselects(row, col) ==
  /\ PointerAccepted
  /\ selectedCell # 0
  /\ selectedCell # board[row][col]
  /\ ~cellsAreNeighbours(Scene, selectedCell, board[row][col])
  /\ selectedCell' = board[row][col]
  /\ UNCHANGED <<board, cell, rnd, fly, draggedCell, moveInProgress, score, moves,
                 isGameOver, gameOverMsg, debugMode, api, session, spawned, h, call>>

\* onPointerDown on a neighbour of the selected cell: the swap, up to the await
\* of its animation
PointerSwaps(row, col) ==
  /\ PointerAccepted
  /\ selectedCell # 0
  /\ selectedCell # board[row][col]
  /\ cellsAreNeighbours(Scene, selectedCell, board[row][col])
  /\ selectedCell' = 0
  /\ moveInProgress' = TRUE
  /\ Commit(swapCells(Scene, selectedCell, board[row][col]))
  /\ h' = begin("swapped", selectedCell, board[row][col])
  /\ UNCHANGED <<draggedCell, score, moves, isGameOver, gameOverMsg, debugMode, api,
                 session, spawned, call>>

onPointerDown(row, col) ==
  \/ PointerSelects(row, col)
  \/ PointerOnSelected(row, col)
  \/ PointerReselects(row, col)
  \/ PointerSwaps(row, col)

\* onDragStart: the cell of the dragged sprite is remembered, a selection dropped
onDragStart(row, col) ==
  /\ ~moveInProgress
  /\ draggedCell = 0
  /\ draggedCell' = board[row][col]
  /\ selectedCell' = 0
  /\ UNCHANGED <<board, cell, rnd, fly, moveInProgress, score, moves, isGameOver,
                 gameOverMsg, debugMode, api, session, spawned, h, call>>

DragAccepted ==
  /\ draggedCell # 0
  /\ InputAccepted

\* onDragEnd on the dragged cell itself: a power-up is activated in place, any
\* other sprite snaps back
DragOnItself(row, col) ==
  /\ DragAccepted
  /\ InBounds(row, col)
  /\ board[row][col] = draggedCell
  /\ cell[draggedCell].powerup # "none" => MovesLeft
  /\ draggedCell' = 0
  /\ IF cell[draggedCell].powerup # "none"
     THEN /\ moveInProgress' = TRUE
          /\ Commit(destroyCells(triggerPowerUp(Scene, draggedCell, 0)))
          /\ h' = [begin("pu_destroyed", draggedCell, draggedCell) EXCEPT
                     !.hasPowerUp = TRUE]
     ELSE UNCHANGED <<board, cell, rnd, fly, moveInProgress, h>>
  /\ UNCHANGED <<selectedCell, score, moves, isGameOver, gameOverMsg, debugMode, api,
                 session, spawned, call>>

\* onDragEnd off the board or on a cell that is no neighbour: the sprite snaps back
DragSnapsBack(row, col) ==
  /\ DragAccepted
  /\ \/ ~InBounds(row, col)
     \/ /\ InBounds(row, col)
        /\ board[row][col] # draggedCell
        /\ ~cellsAreNeighbours(Scene, draggedCell, board[row][col])
  /\ draggedCell' = 0
  /\ UNCHANGED <<board, cell, rnd, fly, selectedCell, moveInProgress, score, moves,
                 isGameOver, gameOverMsg, debugMode, api, session, spawned, h, call>>

\* onDragEnd on a neighbour: the swap, up to the await of its animation
DragSwaps(row, col) ==
  /\ DragAccepted
  /\ InBounds(row, col)
  /\ board[row][col] # draggedCell
  /\ cellsAreNeighbours(Scene, draggedCell, board[row][col])
  /\ draggedCell' = 0
  /\ moveInProgress' = TRUE
  /\ Commit(swapCells(Scene, draggedCell, board[row][col]))
  /\ h' = begin("swapped", draggedCell, board[row][col])
  /\ UNCHANGED <<selectedCell, score, moves, isGameOver, gameOverMsg, debugMode, api,
                 session, spawned, call>>

onDragEnd(row, col) ==
  \/ DragOnItself(row, col)
  \/ DragSnapsBack(row, col)
  \/ DragSwaps(row, col)

MoveOthersUnchanged == UNCHANGED <<selectedCell, draggedCell, debugMode, api, spawned, call>>

\* the statements after the cascade loop: the game ends when the moves are
\* used up or, outside debug mode, getWinningMoves finds nothing; then
\* moveInProgress is reset
Accepted ==
  h' = [idle EXCEPT !.outcome = "accepted", !.cascades = h.cascades]

NoMoreMoves(res, theMoves) ==
  /\ Commit(res.st)
  /\ IF Len(res.winningMoves) = 0 /\ ~debugMode
     THEN gameOver("No more moves!")
     ELSE UNCHANGED <<isGameOver, gameOverMsg>>
  /\ Accepted

\* an end of the move that leaves moveInProgress as it is
FinishMoveInProgress(theMoves) ==
  /\ IF theMoves <= 0
     THEN /\ gameOver("Out of moves!")
          /\ UNCHANGED <<board, cell, rnd, fly>>
          /\ Accepted
     ELSE NoMoreMoves(getWinningMoves(Scene), theMoves)
  /\ UNCHANGED moveInProgress

FinishMove(theMoves) ==
  /\ IF theMoves <= 0
     THEN /\ gameOver("Out of moves!")
          /\ UNCHANGED <<board, cell, rnd, fly>>
          /\ Accepted
     ELSE NoMoreMoves(getWinningMoves(Scene), theMoves)
  /\ moveInProgress' = FALSE

\* the head of the cascade loop: another pass, or the end of the move
CascadeOrFinish(theMoves, cascades) ==
  IF boardShouldExplode(Scene)
  THEN /\ Commit(cascadePass(Scene))
       /\ h' = [h EXCEPT !.pc = "c_destroyed", !.chains = getExplodingChains(Scene),
                         !.cascades = cascades]
       /\ UNCHANGED <<moveInProgress, isGameOver, gameOverMsg>>
  ELSE FinishMove(theMoves)

\* after the swap animation, a power-up among the two cells: the activation or
\* the combination, up to the await of destroyCells
SwapActivates ==
  /\ h.pc = "swapped"
  /\ cell[h.firstCell].powerup # "none" \/ cell[h.secondCell].powerup # "none"
  /\ MovesLeft
  /\ Commit(destroyCells(
              triggerPowerUp(triggerPowerUp(Scene, h.firstCell, h.secondCell),
                             h.secondCell, h.firstCell)))
  /\ h' = [h EXCEPT !.pc = "pu_destroyed", !.hasPowerUp = TRUE]
  /\ UNCHANGED <<moveInProgress, score, moves, isGameOver, gameOverMsg, session>>
  /\ MoveOthersUnchanged

\* after the swap animation, no power-up but a match or a pattern: the move
\* counts and the first pass of the cascade loop runs
SwapMatches ==
  /\ h.pc = "swapped"
  /\ cell[h.firstCell].powerup = "none" /\ cell[h.secondCell].powerup = "none"
  /\ boardShouldExplode(Scene)
  /\ MovesLeft
  /\ decrementMoves
  /\ CascadeOrFinish(moves - 1, 0)
  /\ UNCHANGED score
  /\ MoveOthersUnchanged

\* after the swap animation, neither: the cells are swapped back
SwapRejected ==
  /\ h.pc = "swapped"
  /\ cell[h.firstCell].powerup = "none" /\ cell[h.secondCell].powerup = "none"
  /\ ~boardShouldExplode(Scene)
  /\ Commit(swapCells(Scene, h.firstCell, h.secondCell))
  /\ h' = [h EXCEPT !.pc = "swapback"]
  /\ UNCHANGED <<moveInProgress, score, moves, isGameOver, gameOverMsg, session>>
  /\ MoveOthersUnchanged

\* after the swap-back animation
SwapBackDone ==
  /\ h.pc = "swapback"
  /\ moveInProgress' = FALSE
  /\ h' = [idle EXCEPT !.outcome = "rejected"]
  /\ UNCHANGED <<board, cell, rnd, fly, score, moves, isGameOver, gameOverMsg, session>>
  /\ MoveOthersUnchanged

\* after destroyCells of a power-up move: makeCellsFall
PowerUpFall ==
  /\ h.pc = "pu_destroyed"
  /\ Commit(makeCellsFall(Scene))
  /\ h' = [h EXCEPT !.pc = "pu_fallen"]
  /\ UNCHANGED <<moveInProgress, score, moves, isGameOver, gameOverMsg, session>>
  /\ MoveOthersUnchanged

\* then refillBoard
PowerUpRefill ==
  /\ h.pc = "pu_fallen"
  /\ Commit(refillBoard(Scene))
  /\ h' = [h EXCEPT !.pc = "pu_refilled"]
  /\ UNCHANGED <<moveInProgress, score, moves, isGameOver, gameOverMsg, session>>
  /\ MoveOthersUnchanged

\* then the move counts and the cascade loop begins
PowerUpCounts ==
  /\ h.pc = "pu_refilled"
  /\ decrementMoves
  /\ CascadeOrFinish(moves - 1, 0)
  /\ UNCHANGED score
  /\ MoveOthersUnchanged

\* a pass of the cascade loop after destroyCells: the score, then makeCellsFall
CascadeFall ==
  /\ h.pc = "c_destroyed"
  /\ setScore(score + computeScore(h.chains, h.cascades))
  /\ Commit(makeCellsFall(Scene))
  /\ h' = [h EXCEPT !.pc = "c_fallen"]
  /\ UNCHANGED <<moveInProgress, moves, isGameOver, gameOverMsg>>
  /\ MoveOthersUnchanged

\* then refillBoard
CascadeRefill ==
  /\ h.pc = "c_fallen"
  /\ Commit(refillBoard(Scene))
  /\ h' = [h EXCEPT !.pc = "c_refilled"]
  /\ UNCHANGED <<moveInProgress, score, moves, isGameOver, gameOverMsg, session>>
  /\ MoveOthersUnchanged

\* then the next turn of the loop
CascadeNext ==
  /\ h.pc = "c_refilled"
  /\ CascadeOrFinish(moves, h.cascades + 1)
  /\ UNCHANGED <<score, moves, session>>
  /\ MoveOthersUnchanged

MoveStep ==
  \/ SwapActivates
  \/ SwapMatches
  \/ SwapRejected
  \/ SwapBackDone
  \/ PowerUpFall
  \/ PowerUpRefill
  \/ PowerUpCounts
  \/ CascadeFall
  \/ CascadeRefill
  \/ CascadeNext

Seeds == {0}

\* the scene as create() leaves it: a test board of the URL, or a board drawn
\* by initBoard with the moves of the URL
Init ==
  \E seed \in Seeds :
    \/ InitWith("fly-away-test", <<>>, seed, 30, FALSE)
    \/ \E initialMoves \in {1, 30} : InitWith("", drawnBoard, seed, initialMoves, FALSE)

Next ==
  \/ \E p \in Pointers : onPointerDown(p[1], p[2])
  \/ \E p \in Dragged : onDragStart(p[1], p[2])
  \/ \E p \in Pointers \cup {<<size, 0>>} : onDragEnd(p[1], p[2])
  \/ MoveStep
  \/ FlyAwayStep

Spec == Init /\ [][Next]_vars

\* ---------------------------------------------------------------- direct calls
\* The scene's methods called directly on a board, as tests/powerups.spec.ts
\* and the gameDebug console commands do.

MaxSpawned == 1

SpawnCells == {<<4, 1>>, <<4, 2>>, <<4, 5>>, <<7, 4>>}

\* a drawn board after the gameDebug.spawnPowerup commands of the list
InitSpawned(rows, spawns) ==
  LET st == spawnAll(loadColors([board |-> createEmptyBoard.board,
                                 cell |-> createEmptyBoard.cell,
                                 fly |-> <<>>, rnd |-> 0, trig |-> <<>>], rows), spawns, 1)
  IN /\ possibleDraw(rows)
     /\ board = st.board
     /\ cell = st.cell
     /\ fly = <<>>
     /\ rnd = 0
     /\ selectedCell = 0
     /\ draggedCell = 0
     /\ moveInProgress = FALSE
     /\ score = 0
     /\ moves = 30
     /\ isGameOver = FALSE
     /\ gameOverMsg = ""
     /\ debugMode = TRUE
     /\ rateLimitStore = emptyStore
     /\ clock = 0
     /\ requests = <<>>
     /\ session = [moves |-> 0, score |-> 0]
     /\ spawned = Len(spawns)
     /\ h = idle
     /\ call = noCall

InitDebug ==
  \/ \E name \in {"tnt-test", "fly-away-test", "combo-test"} :
       InitWith(name, <<>>, 0, 30, TRUE)
  \/ InitWith("", lastRowBoard, 0, 30, TRUE)
  \/ \E type \in {"tnt", "fly-away"} :
       InitSpawned(lastRowBoard, <<<<"color-bomb", 7, 4>>, <<type, 7, 5>>>>)
  \/ InitSpawned(lastRowBoard, <<<<"tnt", 7, 4>>, <<"tnt", 7, 5>>>>)

DebugVarsUnchanged ==
  UNCHANGED <<selectedCell, draggedCell, moveInProgress, score, moves, isGameOver,
              gameOverMsg, debugMode, api, session, h>>

\* gameDebug.spawnPowerup, issued before a call or while a fly-away is in flight
DebugSpawnPowerup(type, row, col) ==
  /\ spawned < MaxSpawned
  /\ call.op = "none" \/ \E i \in 1 .. Len(fly) : fly[i].pc = "flying"
  /\ spawned' = spawned + 1
  /\ Commit(spawnPowerup(Scene, type, row, col))
  /\ UNCHANGED call
  /\ DebugVarsUnchanged

ReturnedMoves(res) == Returned(res.st, "getWinningMoves", 0, res.winningMoves)

CallTriggerPowerUp(row, col) ==
  /\ call.op = "none"
  /\ At(Scene, row, col).powerup # "none"
  /\ Returned(triggerPowerUp(Scene, board[row][col], 0), "triggerPowerUp",
              board[row][col], <<>>)
  /\ UNCHANGED spawned
  /\ DebugVarsUnchanged

\* triggerPowerUp called on a color-bomb with the neighbouring plain gem it is
\* swapped with, as the move handlers call it
CallTriggerColorBomb(cell1, cell2) ==
  /\ call.op = "none"
  /\ cell[cell1].powerup = "color-bomb"
  /\ cell[cell2].powerup = "none"
  /\ Commit(triggerPowerUp(Scene, cell1, cell2))
  /\ call' = [noCall EXCEPT !.op = "triggerPowerUp", !.target = cell1,
                            !.with = cell2, !.pre = cell, !.preBoard = board,
                            !.trig = triggerPowerUp(Scene, cell1, cell2).trig,
                            !.result = triggerPowerUp(Scene, cell1, cell2).cell]
  /\ UNCHANGED spawned
  /\ DebugVarsUnchanged

\* executeCombination called directly on two grid-adjacent power-up cells
CallExecuteCombination(cell1, cell2) ==
  /\ call.op = "none"
  /\ cell[cell1].powerup # "none"
  /\ cell[cell2].powerup # "none"
  /\ Commit(executeCombination(Scene, cell1, cell2))
  /\ call' = [noCall EXCEPT !.op = "executeCombination", !.target = cell1,
                            !.with = cell2, !.pre = cell, !.preBoard = board,
                            !.trig = executeCombination(Scene, cell1, cell2).trig,
                            !.result = executeCombination(Scene, cell1, cell2).cell]
  /\ UNCHANGED spawned
  /\ DebugVarsUnchanged

\* makeCellsFall called directly on the board a chain activation left
CallMakeCellsFall ==
  /\ call.op \in {"triggerPowerUp", "executeCombination"}
  /\ Commit(makeCellsFall(Scene))
  /\ call' = [noCall EXCEPT !.op = "makeCellsFall", !.pre = cell, !.preBoard = board,
                            !.result = makeCellsFall(Scene).cell,
                            !.resultBoard = makeCellsFall(Scene).board]
  /\ UNCHANGED spawned
  /\ DebugVarsUnchanged

\* refillBoard called on the scene makeCellsFall left, as every handler does
\* when no fly-away is in flight and no other callback runs during the fall;
\* the record keeps the scene the fall started from
CallRefillBoard ==
  /\ call.op = "makeCellsFall"
  /\ fly = <<>>
  /\ cell = call.result /\ board = call.resultBoard
  /\ Commit(refillBoard(Scene))
  /\ call' = [call EXCEPT !.op = "refillBoard", !.result = refillBoard(Scene).cell,
                          !.resultBoard = refillBoard(Scene).board]
  /\ UNCHANGED spawned
  /\ DebugVarsUnchanged

CallGetWinningMoves ==
  /\ call.op = "none"
  /\ ReturnedMoves(getWinningMoves(Scene))
  /\ UNCHANGED spawned
  /\ DebugVarsUnchanged

CallGetExplodingChains ==
  /\ call.op = "none"
  /\ call' = [noCall EXCEPT !.op = "getExplodingChains", !.pre = cell,
                            !.preBoard = board, !.result = getExplodingChains(Scene)]
  /\ UNCHANGED <<board, cell, fly, rnd, spawned>>
  /\ DebugVarsUnchanged

NextDebug ==
  \/ \E type \in PowerUpTypes, pos \in SpawnCells : DebugSpawnPowerup(type, pos[1], pos[2])
  \/ \E row \in Idx, col \in Idx : CallTriggerPowerUp(row, col)
  \/ \E cell1 \in Ids, cell2 \in Ids :
       cellsAreNeighbours(Scene, cell1, cell2) /\ CallExecuteCombination(cell1, cell2)
  \/ \E cell1 \in Ids, cell2 \in Ids :
       cellsAreNeighbours(Scene, cell1, cell2) /\ CallTriggerColorBomb(cell1, cell2)
  \/ CallMakeCellsFall
  \/ CallRefillBoard
  \/ CallGetWinningMoves
  \/ CallGetExplodingChains
  \/ FlyAwayStep

SpecDebug == InitDebug /\ [][NextDebug]_vars

\* ---------------------------------------------------------------- properties of the direct calls

\* the scene a direct call started from
Pre == [board |-> call.preBoard, cell |-> call.pre, fly |-> <<>>, rnd |-> 0, trig |-> <<>>]

\* the cells at the positions ps of the scene a direct call started from
preCellsAt(ps) == {call.preBoard[ps[i][1]][ps[i][2]] : i \in 1 .. Len(ps)}

otherPowerUps(ids) == {id \in ids : id # call.target /\ call.pre[id].powerup # "none"}

\* the pairs of grid-adjacent cells of a scene: each cell with its right and
\* its lower neighbour
adjacentPairs(st) ==
  {<<st.board[r][c], st.board[r][c + 1]>> : r \in Idx, c \in 0 .. size - 2}
    \cup {<<st.board[r][c], st.board[r + 1][c]>> : r \in 0 .. size - 2, c \in Idx}

swapExplodes(st, pair) == boardShouldExplode(swapCells(st, pair[1], pair[2]))

\* C2: getWinningMoves returns a non-empty list whenever some swap of two
\* grid-adjacent cells makes boardShouldExplode true, and every pair it returns
\* is a pair of grid-adjacent cells whose swap makes boardShouldExplode true
GetWinningMovesTriesEveryPair ==
  call.op = "getWinningMoves" =>
    /\ \A i \in 1 .. Len(call.result) :
         /\ cellsAreNeighbours(Pre, call.result[i][1], call.result[i][2])
         /\ swapExplodes(Pre, call.result[i])
    /\ call.result = <<>> => \A pair \in adjacentPairs(Pre) : ~swapExplodes(Pre, pair)

\* C4: after getWinningMoves every grid slot holds the same cell as before the
\* call and every cell has the row, column, color, empty flag and power-up it
\* had before the call
GetWinningMovesLeavesBoard ==
  call.op = "getWinningMoves" => board = call.preBoard /\ cell = call.pre

GetWinningMovesFoundMoves ==
  /\ call.op = "getWinningMoves"
  /\ Len(call.result) > 1
  /\ board = call.preBoard

\* C7: no cell of a chain returned by getExplodingChains holds a power-up
ChainsHoldNoPowerUp ==
  call.op = "getExplodingChains" =>
    \A i \in 1 .. Len(call.result) :
      \A j \in 1 .. Len(call.result[i]) : call.pre[call.result[i][j]].powerup = "none"

rocketAlone(type, ids) ==
  /\ call.op = "triggerPowerUp"
  /\ call.pre[call.target].powerup = type
  /\ otherPowerUps(ids) = {}

emptiedExactly(ids) ==
  \A id \in Ids : call.result[id].empty = (id \in ids \/ call.pre[id].empty)

targetRowCells == {id \in Ids : call.pre[id].row = call.pre[call.target].row}
targetColumnCells == {id \in Ids : call.pre[id].column = call.pre[call.target].column}

\* C8: a horizontal-rocket triggered with no other power-up in its row leaves
\* all cells of its row empty and the empty flag of every other cell as it
\* was; a vertical-rocket does the same with its column
RocketEmptiesItsLine ==
  /\ rocketAlone("horizontal-rocket", targetRowCells) => emptiedExactly(targetRowCells)
  /\ rocketAlone("vertical-rocket", targetColumnCells) => emptiedExactly(targetColumnCells)

RocketTriggeredAlone ==
  /\ rocketAlone("horizontal-rocket", targetRowCells)
  /\ Cardinality({id \in Ids : call.result[id].empty}) = size
  /\ \E id \in Ids : call.pre[id].powerup # "none" /\ id # call.target

\* the cells of the tnt footprint of the triggered cell: the cell and the
\* cells on the board one and two steps from it along its row and its column
tntFootprint ==
  LET r == call.pre[call.target].row
      c == call.pre[call.target].column
  IN {id \in Ids :
        \/ call.pre[id].row = r /\ call.pre[id].column \in (c - 2) .. (c + 2)
        \/ call.pre[id].column = c /\ call.pre[id].row \in (r - 2) .. (r + 2)}

tntAlone ==
  /\ call.op = "triggerPowerUp"
  /\ call.pre[call.target].powerup = "tnt"
  /\ otherPowerUps(tntFootprint) = {}

singleFootprint ==
  LET type == call.pre[call.target].powerup
      r == call.pre[call.target].row
      c == call.pre[call.target].column
  IN CASE type = "horizontal-rocket" -> targetRowCells
       [] type = "vertical-rocket" -> targetColumnCells
       [] type = "tnt" -> tntFootprint
       [] type = "fly-away" ->
            IF findBestFlyAwayTarget(Pre, call.target, <<>>) # 0
            THEN preCellsAt(crossPositions(r, c, 1))
            ELSE {}
       [] OTHER -> {}

\* the target cell of a landing fly-away and its four neighbours
landingFootprint ==
  preCellsAt(crossPositions(call.pre[call.target].row, call.pre[call.target].column, 1))
    \cup {call.target}

\* the cell was activated: its power-up is gone, it is empty, and the row or
\* column of a rocket, the cross of a tnt, is empty with it
chainActivated(q) ==
  LET type == call.pre[q].powerup
      r == call.pre[q].row
      c == call.pre[q].column
      reached == CASE type = "horizontal-rocket" -> preCellsAt(rowPositions(r))
                   [] type = "vertical-rocket" -> preCellsAt(columnPositions(c))
                   [] type = "tnt" -> preCellsAt(crossPositions(r, c, 2))
                   [] OTHER -> {}
  IN /\ call.result[q].powerup = "none"
     /\ call.result[q].empty
     /\ \A id \in reached : call.result[id].empty

\* C10: every other cell with a power-up in the footprint of a single
\* activated rocket, tnt or fly-away (at its origin and at its target) is
\* activated and its own footprint applied
FootprintChainActivates ==
  /\ call.op = "triggerPowerUp" =>
       \A q \in otherPowerUps(singleFootprint) : chainActivated(q)
  /\ call.op = "targetExplosion" =>
       \A q \in landingFootprint : call.pre[q].powerup # "none" => chainActivated(q)

\* ---------------------------------------------------------------- properties of the moves

\* C1: while a fly-away activated during a move has its target explosion, or
\* the fall, refill and cascade after it, still pending, the move is not
\* finished: moveInProgress is true, so no handler accepts a new move
MoveWaitsForFlyAway == fly # <<>> => moveInProgress

\* a swap of two grid-adjacent cells that the handlers accept as a move
legalMove(st, pair) ==
  \/ st.cell[pair[1]].powerup # "none"
  \/ st.cell[pair[2]].powerup # "none"
  \/ swapExplodes(st, pair)

\* C3: the step that ends the game with 'No more moves!' leaves a scene in
\* which no swap of two grid-adjacent cells is a legal move
NoMoreMovesMeansNoLegalMove ==
  [][(gameOverMsg # "No more moves!" /\ gameOverMsg' = "No more moves!")
       => \A pair \in adjacentPairs(Scene') : ~legalMove(Scene', pair)]_vars

reselected == selectedCell # 0 /\ selectedCell' \notin {0, selectedCell}

snappedBack == draggedCell # 0 /\ draggedCell' = 0 /\ ~moveInProgress'

swappedBack == h.pc = "swapback" /\ h'.pc = "idle"

\* C5: picking a cell that is no neighbour of the selected or dragged one
\* changes no cell, grid slot, score or move counter, and a swap that is
\* swapped back ends with the cells, the grid, the score and the move counter
\* as they were when the attempt began
RejectedMoveChangesNothing ==
  [][/\ (reselected \/ snappedBack) => UNCHANGED <<board, cell, score, moves>>
     /\ swappedBack => Snapshot(Scene', score', moves') = h.start]_vars

\* C6: a move that ends accepted leaves the move counter exactly one below
\* its value when the move began
AcceptedMoveCostsOneMove ==
  [][(h.pc # "idle" /\ h'.pc = "idle" /\ h'.outcome = "accepted")
       => moves' = h.start.moves - 1]_vars

AcceptedMoveWithCascades ==
  /\ h.pc = "idle"
  /\ h.outcome = "accepted"
  /\ h.cascades >= 1
  /\ moves = 29

\* ---------------------------------------------------------------- properties of chain activation

chainCall == call.op \in {"triggerPowerUp", "executeCombination", "targetExplosion"}

\* C11: a triggerPowerUp or executeCombination call returns, and the cells it
\* activated, its chain activations included, are pairwise different cells
\* that held a power-up before the call and hold none after it
ChainActivatesOnce ==
  chainCall =>
    /\ \A i \in 1 .. Len(call.trig) : \A j \in 1 .. Len(call.trig) :
         i # j => call.trig[i] # call.trig[j]
    /\ \A i \in 1 .. Len(call.trig) :
         /\ call.pre[call.trig[i]].powerup # "none"
         /\ call.result[call.trig[i]].powerup = "none"

ChainOfFourActivations ==
  /\ call.op = "triggerPowerUp"
  /\ Len(call.trig) >= 4

\* the scene of the call with the power-up types (and with them the colors)
\* of the two cells exchanged
typesExchanged ==
  [Pre EXCEPT !.cell[call.target].powerup = call.pre[call.with].powerup,
              !.cell[call.target].color = call.pre[call.with].color,
              !.cell[call.with].powerup = call.pre[call.target].powerup,
              !.cell[call.with].color = call.pre[call.target].color]

emptyCells(cells) == {id \in Ids : cells[id].empty}

\* C12: executeCombination marks empty the same cells when the types of its
\* two cells are exchanged on the same board
CombinationIsSymmetric ==
  call.op = "executeCombination" =>
    emptyCells(executeCombination(typesExchanged, call.target, call.with).cell)
      = emptyCells(call.result)

CombinationOfTwoTypes ==
  /\ call.op = "executeCombination"
  /\ call.pre[call.target].powerup = "tnt"
  /\ call.pre[call.with].powerup = "horizontal-rocket"
  /\ Cardinality(emptyCells(call.result)) > 8


\* C13: after executeCombination on two color-bombs every cell of the board
\* is marked empty
TwoColorBombsClearBoard ==
  /\ call.op = "executeCombination"
  /\ call.pre[call.target].powerup = "color-bomb"
  /\ call.pre[call.with].powerup = "color-bomb"
  => /\ \A row \in Idx, col \in Idx : call.result[call.preBoard[row][col]].empty
     /\ Cardinality(emptyCells(call.result)) = size * size

TwoColorBombsCombined ==
  /\ call.op = "executeCombination"
  /\ call.pre[call.target].powerup = "color-bomb"
  /\ call.pre[call.with].powerup = "color-bomb"
  /\ \E id \in Ids : ~call.pre[id].empty /\ call.pre[id].powerup \notin {"none", "color-bomb"}


\* ---------------------------------------------------------------- properties of gravity

\* the cells of a column that are not empty, from the top row to the bottom row
columnGems(b, cells, column) ==
  SelectSeq([i \in 1 .. size |-> b[i - 1][column]], LAMBDA id : ~cells[id].empty)

\* C14: makeCellsFall keeps every cell in its column and the non-empty cells
\* of a column in their order, and leaves no empty cell below a non-empty one
FallCompactsColumns ==
  call.op = "makeCellsFall" =>
    /\ \A id \in Ids :
         call.result[id] = [call.pre[id] EXCEPT !.row = call.result[id].row]
    /\ \A column \in Idx :
         /\ columnGems(call.resultBoard, call.result, column)
              = columnGems(call.preBoard, call.pre, column)
         /\ \A row \in 0 .. (size - 2) :
              ~call.result[call.resultBoard[row][column]].empty
                => ~call.result[call.resultBoard[row + 1][column]].empty

\* a fall on a column that held, top down, an empty cell, a gem, an empty cell
\* and a gem
FallThroughTwoGaps ==
  /\ call.op = "makeCellsFall"
  /\ \E column \in Idx : \E r1 \in Idx, r2 \in Idx, r3 \in Idx, r4 \in Idx :
       /\ r1 < r2 /\ r2 < r3 /\ r3 < r4
       /\ call.pre[call.preBoard[r1][column]].empty
       /\ ~call.pre[call.preBoard[r2][column]].empty
       /\ call.pre[call.preBoard[r3][column]].empty
       /\ ~call.pre[call.preBoard[r4][column]].empty


\* ---------------------------------------------------------------- initBoard, cell by cell

\* a board initBoard can draw: the diagonal board with two orange and two
\* blue cells one above the other at the end of the sixth and seventh row
pairsBoard ==
  <<<<B, R, G, Y, W, O, B, R>>,
    <<R, G, Y, W, O, B, R, G>>,
    <<G, Y, W, O, B, R, G, Y>>,
    <<Y, W, O, B, R, G, Y, W>>,
    <<W, O, B, R, G, Y, W, O>>,
    <<O, B, R, G, Y, W, O, B>>,
    <<B, R, G, Y, W, O, O, B>>,
    <<W, W, Y, W, O, B, R, G>>>>

\* the number of cells, the last ones of the board, whose picks range over
\* every possible color
FreeCells == 5

\* the number of cells the fill loop of initBoard has filled before them
FirstFilled == size * size - FreeCells

\* a pick that excludes no color
anyColor(st, id) == gems

\* the possibleColors of initBoard for a cell: the colors with which the cell
\* neither explodes nor completes a square
possibleColors(st, id) ==
  SelectSeq(gems, LAMBDA color :
    /\ ~shouldExplode([st EXCEPT !.cell[id].color = color], id)
    /\ ~wouldCreate2x2Square([st EXCEPT !.cell[id].color = color], id))

\* the fill loop of initBoard after n cells that drew the colors of rows
filledTo(rows, n) ==
  [createEmptyBoard EXCEPT !.cell = [id \in Ids |->
     IF id <= n
     THEN [createEmptyBoard.cell[id]
             EXCEPT !.color = rows[((id - 1) \div size) + 1][((id - 1) % size) + 1],
                    !.empty = FALSE]
     ELSE createEmptyBoard.cell[id]]]

\* create() inside initBoard: the loop has filled FirstFilled cells;
\* setScore and setMoves follow initBoard. call.target counts the filled cells.
InitFill ==
  \E rows \in {drawnBoard, lastRowBoard, pairsBoard} :
    /\ possibleDraw(rows)
    /\ board = createEmptyBoard.board
    /\ cell = filledTo(rows, FirstFilled).cell
    /\ fly = <<>>
    /\ rnd = 0
    /\ selectedCell = 0
    /\ draggedCell = 0
    /\ moveInProgress = FALSE
    /\ score = 0
    /\ moves = 0
    /\ isGameOver = FALSE
    /\ gameOverMsg = ""
    /\ debugMode = FALSE
    /\ rateLimitStore = emptyStore
    /\ clock = 0
    /\ requests = <<>>
    /\ session = [moves |-> 0, score |-> 0]
    /\ spawned = 0
    /\ h = idle
    /\ call = [noCall EXCEPT !.op = "initBoard", !.target = FirstFilled]

\* one cell of the fill loop: RND.pick returns any of the possible colors,
\* and undefined when there is none
InitBoardFills(color) ==
  /\ call.op = "initBoard"
  /\ call.target < size * size
  /\ IF possibleColors(Scene, call.target + 1) = <<>>
     THEN color = "undefined"
     ELSE color \in Range(possibleColors(Scene, call.target + 1))
  /\ cell' = [cell EXCEPT ![call.target + 1].color = color,
                          ![call.target + 1].empty = FALSE]
  /\ call' = [call EXCEPT !.target = @ + 1]
  /\ UNCHANGED <<board, rnd, selectedCell, draggedCell, moveInProgress, score, moves,
                 isGameOver, gameOverMsg, debugMode, api, session, spawned, h, fly>>

NextFill == \E color \in Range(gems) \cup {"undefined"} : InitBoardFills(color)

SpecFill == InitFill /\ [][NextFill]_vars

\* a square of four cells of one color with its upper left corner at the slot
squareAt(st, row, col) ==
  /\ At(st, row, col).color = At(st, row, col + 1).color
  /\ At(st, row, col).color = At(st, row + 1, col).color
  /\ At(st, row, col).color = At(st, row + 1, col + 1).color

\* C15: while initBoard fills the board every cell has a possible color, and
\* the board it leaves has no empty cell, no square of one color and does not
\* explode
InitBoardIsQuiet ==
  call.op = "initBoard" =>
    IF call.target < size * size
    THEN possibleColors(Scene, call.target + 1) # <<>>
    ELSE /\ \A id \in Ids : ~cell[id].empty /\ cell[id].color \in Range(gems)
         /\ ~boardShouldExplode(Scene)
         /\ \A row \in 0 .. (size - 2), col \in 0 .. (size - 2) : ~squareAt(Scene, row, col)

\* a finished board whose last cell had two colors excluded: the color of the
\* two cells to its left and the color of the two cells above it
InitBoardFilledLastCell ==
  /\ call.op = "initBoard"
  /\ call.target = size * size
  /\ At(Scene, 7, 5).color = At(Scene, 7, 6).color
  /\ At(Scene, 5, 7).color = At(Scene, 6, 7).color
  /\ At(Scene, 7, 6).color # At(Scene, 6, 7).color


\* ---------------------------------------------------------------- getExplodingChains, line by line

\* the colors the cells of the redrawn line take
LineColors == {B, R}

\* a board in the middle of a cascade: two blue cells at the head of the
\* second and third row, two red cells at the end of the second row
cascadeBoard ==
  <<<<Y, Y, G, Y, W, O, B, R>>,
    <<B, G, Y, W, O, B, R, R>>,
    <<B, Y, W, O, B, R, G, Y>>,
    <<Y, W, O, B, R, G, Y, W>>,
    <<W, O, B, R, G, Y, W, O>>,
    <<O, B, R, G, Y, W, O, B>>,
    <<B, R, G, Y, W, O, B, R>>,
    <<W, W, Y, W, O, B, R, G>>>>

\* the rows of cascadeBoard with the first row, or the first column, redrawn
redrawn(line, vertical) ==
  [r \in 1 .. size |-> [c \in 1 .. size |->
     IF vertical /\ c = 1 THEN line[r]
     ELSE IF ~vertical /\ r = 1 THEN line[c]
     ELSE cascadeBoard[r][c]]]

\* the scene with a board whose first row, or first column, refillBoard has
\* redrawn: every cell of the line drew one of LineColors
InitLines ==
  \E line \in [1 .. size -> LineColors], vertical \in BOOLEAN :
    /\ board = createEmptyBoard.board
    /\ cell = loadColors(createEmptyBoard, redrawn(line, vertical)).cell
    /\ fly = <<>>
    /\ rnd = 0
    /\ selectedCell = 0
    /\ draggedCell = 0
    /\ moveInProgress = FALSE
    /\ score = 0
    /\ moves = 30
    /\ isGameOver = FALSE
    /\ gameOverMsg = ""
    /\ debugMode = FALSE
    /\ rateLimitStore = emptyStore
    /\ clock = 0
    /\ requests = <<>>
    /\ session = [moves |-> 0, score |-> 0]
    /\ spawned = 0
    /\ h = idle
    /\ call = noCall

\* createPowerUpsFromChains called with the chains getExplodingChains returned
CallCreatePowerUpsFromChains ==
  /\ call.op = "getExplodingChains"
  /\ Commit(createPowerUpsFromChains(Scene, call.result))
  /\ call' = [noCall EXCEPT !.op = "createPowerUpsFromChains", !.pre = cell,
                            !.preBoard = board, !.chains = call.result,
                            !.result = createPowerUpsFromChains(Scene, call.result).cell]
  /\ UNCHANGED spawned
  /\ DebugVarsUnchanged

NextLines ==
  \/ CallGetExplodingChains
  \/ CallCreatePowerUpsFromChains

SpecLines == InitLines /\ [][NextLines]_vars

\* the rows, then the columns, of the board a direct call started from
preLines ==
  [k \in 1 .. 2 * size |->
     IF k <= size THEN [i \in 1 .. size |-> call.preBoard[k - 1][i - 1]]
     ELSE [i \in 1 .. size |-> call.preBoard[i - 1][k - size - 1]]]

\* the cells i..j of the line have one color, the cell before i and the cell
\* after j have another one or do not exist, and the run has three cells or more
maximalRun(line, i, j) ==
  /\ j - i + 1 >= explosionThreshold
  /\ \A n \in i .. j : call.pre[line[n]].color = call.pre[line[i]].color
  /\ i > 1 => call.pre[line[i - 1]].color # call.pre[line[i]].color
  /\ j < Len(line) => call.pre[line[j + 1]].color # call.pre[line[i]].color

maximalRuns ==
  {SubSeq(preLines[run[1]], run[2], run[3]) :
     run \in {r \in (1 .. 2 * size) \X (1 .. size) \X (1 .. size) :
                maximalRun(preLines[r[1]], r[2], r[3])}}

\* C16: getExplodingChains returns the maximal runs of three or more cells of
\* one color of every row and column, each of them once and in full, and no
\* two chains of one line share a cell
ChainsAreTheMaximalRuns ==
  call.op = "getExplodingChains" =>
    /\ Range(call.result) = maximalRuns
    /\ Len(call.result) = Cardinality(maximalRuns)
    /\ \A k \in 1 .. 2 * size : \A m \in 1 .. Len(call.result), n \in 1 .. Len(call.result) :
         /\ m # n
         /\ Range(call.result[m]) \subseteq Range(preLines[k])
         /\ Range(call.result[n]) \subseteq Range(preLines[k])
         => Range(call.result[m]) \cap Range(call.result[n]) = {}

\* the first row starts with a run of three cells before another color, and
\* one of the chains has five cells
ChainsOfThreeAndFive ==
  /\ call.op = "getExplodingChains"
  /\ \E m \in 1 .. Len(call.result) :
       /\ Len(call.result[m]) = 3
       /\ call.result[m][1] = call.preBoard[0][0]
       /\ call.result[m][3] = call.preBoard[0][2]
  /\ \E m \in 1 .. Len(call.result) : Len(call.result[m]) = 5


\* ---------------------------------------------------------------- properties of power-up creation

\* the chain has a cell in one of the special patterns of the board the call
\* started from
sharesSpecialPattern(chain) ==
  \E p \in 1 .. Len(detectSpecialPatterns(Pre)) :
    Range(detectSpecialPatterns(Pre)[p].cells) \cap Range(chain) # {}

\* C17: of a chain of four cells or more that shares no cell with a special
\* pattern, createPowerUpsFromChains turns the cell at index floor(L/2) into a
\* power-up, a color-bomb for five cells or more, else a horizontal-rocket for
\* a chain along a row and a vertical-rocket for a chain along a column, and
\* marks every other cell of the chain empty without making it a power-up
ChainBecomesOnePowerUp ==
  call.op = "createPowerUpsFromChains" =>
    \A m \in 1 .. Len(call.chains) :
      LET chain == call.chains[m]
      IN Len(chain) >= 4 /\ ~sharesSpecialPattern(chain) =>
           /\ call.result[chain[(Len(chain) \div 2) + 1]].powerup =
                IF Len(chain) >= 5 THEN "color-bomb"
                ELSE IF call.pre[chain[1]].row = call.pre[chain[2]].row
                     THEN "horizontal-rocket"
                     ELSE "vertical-rocket"
           /\ \A i \in 1 .. Len(chain) :
                i # (Len(chain) \div 2) + 1 =>
                  /\ call.result[chain[i]].empty
                  /\ call.result[chain[i]].powerup = "none"

\* a chain of four cells of the first row became a horizontal-rocket at its
\* third cell, next to a chain that is part of a square
RocketBesideSquare ==
  /\ call.op = "createPowerUpsFromChains"
  /\ \E m \in 1 .. Len(call.chains) :
       /\ Len(call.chains[m]) = 4
       /\ ~sharesSpecialPattern(call.chains[m])
       /\ call.result[call.chains[m][3]].powerup = "horizontal-rocket"
  /\ \E m \in 1 .. Len(call.chains) : sharesSpecialPattern(call.chains[m])


\* ---------------------------------------------------------------- properties of the score

\* 50 * (L - 2) for every chain of L cells, times the cascade index plus one
passScore(chains, cascadeIndex) ==
  LET total[n \in 0 .. Len(chains)] ==
        IF n = 0 THEN 0 ELSE total[n - 1] + 50 * (Len(chains[n]) - 2)
  IN total[Len(chains)] * (cascadeIndex + 1)

\* a pass of the cascade loop of a move adds its score
movePassScores == h.pc = "c_destroyed" /\ h'.pc = "c_fallen"

\* a pass of the cascade loop of the i-th fly-away adds its score
flyPassScores(i) ==
  /\ Len(fly') = Len(fly)
  /\ fly[i].pc = "f_destroyed"
  /\ fly'[i].pc = "f_fallen"
  /\ fly'[i].passes = fly[i].passes + 1

\* C18: a destruction pass adds the sum of 50 * (L - 2) over its chains times
\* the cascade index plus one, the index being the number of passes the loop
\* has made before it
ScoreGrowsWithCascadeIndex ==
  [][/\ movePassScores => score' = score + passScore(h.chains, h.cascades)
     /\ \A i \in 1 .. Len(fly) :
          flyPassScores(i) => score' = score + passScore(fly[i].chains, fly[i].passes)]_vars


\* ---------------------------------------------------------------- properties of the grid

\* C19: the grid is a size x size matrix, every cell is in exactly one slot
\* of it, and the row and column a cell records are those of its slot
GridHoldsEveryCellOnce ==
  /\ DOMAIN board = Idx
  /\ \A r \in Idx : DOMAIN board[r] = Idx
  /\ \A r \in Idx, c \in Idx :
       /\ board[r][c] \in Ids
       /\ cell[board[r][c]].row = r
       /\ cell[board[r][c]].column = c
  /\ \A id \in Ids :
       Cardinality({p \in Idx \X Idx : board[p[1]][p[2]] = id}) = 1

\* after an accepted move a cell has left its column by the swap and another
\* cell has left its row by the fall
CellsMovedBySwapAndFall ==
  /\ h.pc = "idle"
  /\ h.outcome = "accepted"
  /\ \E id \in Ids : cell[id].column # (id - 1) % size
  /\ \E id \in Ids : cell[id].row > (id - 1) \div size


\* ---------------------------------------------------------------- the end of a move

\* the handler of an accepted move is between two of its awaits
moveAccepted ==
  h.pc \in {"pu_destroyed", "pu_fallen", "pu_refilled", "c_destroyed", "c_fallen", "c_refilled"}

\* a handler resumes after each of its awaits, the tweens it waits for
\* complete: WF_vars(MoveStep) for the accepted moves, where MoveStep is
\* enabled at every await and is the only action that changes h
HandlerResumes == []<>(~moveAccepted) \/ []<><<moveAccepted>>_h

\* the seeds of the random source under which the moves are followed to
\* their end: one for the test board, every state of the generator for the
\* drawn board
LiveSeeds == {0}

InitLive ==
  \/ \E seed \in LiveSeeds : InitWith("fly-away-test", <<>>, seed, 30, FALSE)
  \/ \E seed \in 0 .. 15, initialMoves \in {1, 30} :
       InitWith("", drawnBoard, seed, initialMoves, FALSE)

SpecLive == InitLive /\ [][Next]_vars /\ HandlerResumes

\* the handler has left its cascade loop on a board without chain or pattern
\* and the scene takes moves again
moveAtFixpoint ==
  /\ h.pc = "idle"
  /\ h.outcome = "accepted"
  /\ ~moveInProgress
  /\ ~boardShouldExplode(Scene)

maxRequests == 3
windowMs == 2
MaxClock == 5
MaxRequestsLogged == 6
Identifiers == {"ip1", "ip2"}

\* if (entry.count > config.maxRequests), without the headroom of one call
atLimit(count, config) == count >= config.maxRequests

\* if (entry.count > config.maxRequests)
overLimit(count, config) == count > config.maxRequests

\* the config submitScore passes
submitScoreLimit == [maxRequests |-> maxRequests, windowMs |-> windowMs]

\* checkRateLimit(identifier, config) at the time now: the store it leaves and
\* the RateLimitResult it returns
checkRateLimit(store, identifier, config, now) ==
  IF identifier \notin DOMAIN store \/ now > store[identifier].resetTime
  THEN LET newEntry == [count |-> 1, resetTime |-> now + config.windowMs]
       IN [store |-> [id \in DOMAIN store \cup {identifier} |->
                        IF id = identifier THEN newEntry ELSE store[id]],
           result |-> [allowed |-> TRUE, remaining |-> config.maxRequests - 1,
                       resetTime |-> newEntry.resetTime]]
  ELSE LET entry == [store[identifier] EXCEPT !.count = @ + 1]
       IN [store |-> [store EXCEPT ![identifier] = entry],
           result |-> IF overLimit(entry.count, config)
                      THEN [allowed |-> FALSE, remaining |-> 0, resetTime |-> entry.resetTime]
                      ELSE [allowed |-> TRUE, remaining |-> config.maxRequests - entry.count,
                            resetTime |-> entry.resetTime]]

GameUnchanged ==
  UNCHANGED <<board, cell, rnd, selectedCell, draggedCell, moveInProgress, score, moves,
              isGameOver, gameOverMsg, debugMode, session, spawned, h, fly, call>>

\* the API process serves a checkRateLimit call at the time now
CallCheckRateLimit(identifier, now) ==
  /\ Len(requests) < MaxRequestsLogged
  /\ now >= clock
  /\ rateLimitStore' = checkRateLimit(rateLimitStore, identifier, submitScoreLimit, now).store
  /\ clock' = now
  /\ requests' = Append(requests, [identifier |-> identifier, now |-> now,
                                   result |->
                                     checkRateLimit(rateLimitStore, identifier, submitScoreLimit, now).result])
  /\ GameUnchanged

\* the clean-up timer fires at the time now and deletes the entries whose
\* window is over
CleanUp(now) ==
  /\ now >= clock
  /\ \E id \in DOMAIN rateLimitStore : now > rateLimitStore[id].resetTime
  /\ rateLimitStore' = [id \in {k \in DOMAIN rateLimitStore : ~(now > rateLimitStore[k].resetTime)} |->
                          rateLimitStore[id]]
  /\ clock' = now
  /\ UNCHANGED requests
  /\ GameUnchanged

\* the API process holds no scene: the game's variables rest at their values
\* before create()
InitRate ==
  /\ board = createEmptyBoard.board
  /\ cell = createEmptyBoard.cell
  /\ fly = <<>>
  /\ rnd = 0
  /\ selectedCell = 0
  /\ draggedCell = 0
  /\ moveInProgress = FALSE
  /\ score = 0
  /\ moves = 0
  /\ isGameOver = FALSE
  /\ gameOverMsg = ""
  /\ debugMode = FALSE
  /\ rateLimitStore = emptyStore
  /\ clock = 0
  /\ requests = <<>>
  /\ session = [moves |-> 0, score |-> 0]
  /\ spawned = 0
  /\ h = idle
  /\ call = noCall

NextRate ==
  \/ \E identifier \in Identifiers, now \in 0 .. MaxClock : CallCheckRateLimit(identifier, now)
  \/ \E now \in 0 .. MaxClock : CleanUp(now)

SpecRate == InitRate /\ [][NextRate]_vars

\* the calls before the k-th that one identifier made
earlier(k) == {j \in 1 .. (k - 1) : requests[j].identifier = requests[k].identifier}

\* the k-th call opens a window: it is the identifier's first call or comes
\* after the resetTime its previous call was told
opensWindow(k) ==
  \/ earlier(k) = {}
  \/ LET prev == CHOOSE j \in earlier(k) : \A i \in earlier(k) : i <= j
     IN requests[k].now > requests[prev].result.resetTime

\* the call that opened the window the k-th call falls into
windowOf(k) == CHOOSE j \in (earlier(k) \cup {k}) :
                 /\ opensWindow(j)
                 /\ \A i \in (earlier(k) \cup {k}) : opensWindow(i) => i <= j

\* the position of the k-th call among the calls of its window
rankInWindow(k) == Cardinality({j \in (earlier(k) \cup {k}) : j >= windowOf(k)})

\* C21: for one identifier a call that opens a window is allowed and sets the
\* resetTime one window length ahead; a call before that resetTime is allowed
\* exactly when it is among the first maxRequests calls of the window
RateLimitAllowsFirstCallsOfWindow ==
  \A k \in 1 .. Len(requests) :
    LET open == requests[windowOf(k)] IN
      /\ opensWindow(k) => /\ requests[k].result.allowed
                           /\ requests[k].result.resetTime = requests[k].now + windowMs
      /\ requests[k].result.resetTime = open.now + windowMs
      /\ requests[k].now < open.now + windowMs =>
           (requests[k].result.allowed <=> rankInWindow(k) <= maxRequests)

\* one identifier was allowed maxRequests calls, denied the next one before the
\* resetTime and allowed again after it, with a call of the other identifier
\* in between
DeniedThenAllowedAgain ==
  \E k \in 1 .. Len(requests) :
    /\ \E i \in 1 .. k : requests[i].identifier # requests[k].identifier
    /\ ~requests[k].result.allowed
    /\ rankInWindow(k) = maxRequests + 1
    /\ requests[k].now < requests[k].result.resetTime
    /\ \E j \in (k + 1) .. Len(requests) :
         /\ requests[j].identifier = requests[k].identifier
         /\ opensWindow(j)
         /\ requests[j].result.allowed


\* ---------------------------------------------------------------- properties of the fly-away

\* C22: when triggerPowerUp returns from a fly-away activated on its own, each
\* in-bounds orthogonal neighbour of the fly-away's cell is empty and holds no
\* power-up
FlyAwayExplodesAtOrigin ==
  (call.op = "triggerPowerUp" /\ call.pre[call.target].powerup = "fly-away") =>
    \A n \in Range(getNeighbors(Pre, call.target)) :
      call.result[n].empty /\ call.result[n].powerup = "none"

\* the cells findBestFlyAwayTarget does not skip
flyAwayCandidates(st, fromCell, excludeCells) ==
  {id \in Ids : /\ ~st.cell[id].empty
                /\ st.cell[id].powerup = "none"
                /\ id # fromCell
                /\ id \notin Range(excludeCells)}

\* row-major position of a cell
scanIndex(st, id) == st.cell[id].row * size + st.cell[id].column

\* the first cell, in row-major order, with the most matching neighbours
bestOfCandidates(st, cands, target) ==
  /\ target \in cands
  /\ \A id \in cands :
       \/ matchCount(st, id) < matchCount(st, target)
       \/ matchCount(st, id) = matchCount(st, target) /\ scanIndex(st, target) <= scanIndex(st, id)

\* the exclusion lists a search from fromCell is checked with: none, and the
\* target of the search without exclusions
exclusionLists(st, fromCell) ==
  {<<>>} \cup (IF findBestFlyAwayTarget(st, fromCell, <<>>) = 0 THEN {}
               ELSE {<<findBestFlyAwayTarget(st, fromCell, <<>>)>>})

\* C23: from every fly-away of the board, findBestFlyAwayTarget returns a cell
\* whenever a candidate exists, and the cell it returns is the first candidate
\* in row-major order with the most matching neighbours
FlyAwayTargetIsBestCandidate ==
  \A fromCell \in {id \in Ids : cell[id].powerup = "fly-away"} :
    \A excludeCells \in exclusionLists(Scene, fromCell) :
      flyAwayCandidates(Scene, fromCell, excludeCells) # {} =>
        bestOfCandidates(Scene, flyAwayCandidates(Scene, fromCell, excludeCells),
                         findBestFlyAwayTarget(Scene, fromCell, excludeCells))


\* the cells above, below, left and right of a cell, in this order, that hold
\* a plain gem when the call starts
plainNeighboursOf(origin) ==
  LET row == call.pre[origin].row
      column == call.pre[origin].column
      around == SelectSeq(<<<<row - 1, column>>, <<row + 1, column>>,
                            <<row, column - 1>>, <<row, column + 1>>>>, inBoundsPos)
      ids == [i \in 1 .. Len(around) |-> call.preBoard[around[i][1]][around[i][2]]]
  IN SelectSeq(ids, LAMBDA id : ~call.pre[id].empty /\ call.pre[id].powerup = "none")

plainNeighboursInOrder == plainNeighboursOf(call.target)

\* the color a color-bomb is to take: that of the plain gem it was swapped
\* with, otherwise that of its first plain neighbour, "null" without one
claimedTargetColor ==
  IF call.with # 0 THEN call.pre[call.with].color
  ELSE IF plainNeighboursInOrder # <<>> THEN call.pre[plainNeighboursInOrder[1]].color
  ELSE "null"

colorBombTriggered == call.op = "triggerPowerUp" /\ call.pre[call.target].powerup = "color-bomb"

\* C24: a triggered color-bomb leaves empty itself and the cells of its target
\* color, and leaves the empty flag and the power-up of every other cell as
\* they were; the target color is that of the plain gem it was swapped with,
\* otherwise that of its first plain neighbour in the order up, down, left,
\* right
ColorBombEmptiesTargetColor ==
  colorBombTriggered =>
    \A id \in Ids :
      /\ call.result[id].empty =
           (call.pre[id].empty \/ id = call.target \/ call.pre[id].color = claimedTargetColor)
      /\ id # call.target => call.result[id].powerup = call.pre[id].powerup

\* a color-bomb swapped with a gem of another color than its first plain
\* neighbour's, which emptied a cell of the gem's color away from it
ColorBombTookSwappedColor ==
  /\ colorBombTriggered
  /\ call.with # 0
  /\ plainNeighboursInOrder # <<>>
  /\ call.pre[plainNeighboursInOrder[1]].color # claimedTargetColor
  /\ \E id \in Ids : /\ id \notin {call.target, call.with}
                     /\ ~call.pre[id].empty
                     /\ call.result[id].empty
                     /\ call.pre[id].color = claimedTargetColor
  /\ \E id \in Ids : ~call.result[id].empty /\ call.result[id].powerup = "none"


\* ---------------------------------------------------------------- swaps of two power-ups
\* The pointer handler on the combo-test board, where power-ups lie side by
\* side, and on a drawn board. No fly-away finds a target on the combo-test
\* board, so no animateFlyAway task is pending in these games.

ComboPointers == {<<0, 2>>, <<0, 3>>, <<2, 2>>, <<2, 3>>, <<4, 2>>, <<4, 3>>,
                  <<6, 2>>, <<6, 3>>, <<6, 5>>, <<6, 6>>}

InitCombo ==
  \/ InitWith("combo-test", <<>>, 0, 30, FALSE)
  \/ InitWith("", drawnBoard, 0, 30, FALSE)

NextCombo ==
  \/ \E p \in ComboPointers : onPointerDown(p[1], p[2])
  \/ MoveStep

SpecCombo == InitCombo /\ [][NextCombo]_vars

\* the step after the swap animation of two cells that both hold a power-up
twoPowerUpsSwapped ==
  /\ h.pc = "swapped"
  /\ h'.pc = "pu_destroyed"
  /\ cell[h.firstCell].powerup # "none"
  /\ cell[h.secondCell].powerup # "none"

\* C25: the step that follows the swap of two power-ups leaves both cells
\* empty and without power-up, and leaves the scene as one executeCombination
\* of the first cell with the second, followed by destroyCells, leaves it
SwapOfTwoPowerUpsCombinesOnce ==
  [][twoPowerUpsSwapped =>
       /\ \A id \in {h.firstCell, h.secondCell} : cell'[id].empty /\ cell'[id].powerup = "none"
       /\ cell' = destroyCells(executeCombination(Scene, h.firstCell, h.secondCell)).cell
       /\ board' = board
       /\ fly' = executeCombination(Scene, h.firstCell, h.secondCell).fly
       /\ rnd' = executeCombination(Scene, h.firstCell, h.secondCell).rnd]_vars

\* two tnt were swapped and combined, and the move goes on
TwoTntSwapped ==
  /\ h.pc = "pu_destroyed"
  /\ h.firstCell # h.secondCell
  /\ cell[h.firstCell].color = "tnt"
  /\ cell[h.secondCell].color = "tnt"
  /\ cell[h.firstCell].empty /\ cell[h.secondCell].empty


\* C26: when executeCombination returns, every cell other than the two
\* combined ones that held a power-up and was emptied by the call has been
\* triggered and holds no power-up any more
CombinationChainActivatesPowerUps ==
  call.op = "executeCombination" =>
    \A id \in Ids \ {call.target, call.with} :
      (call.pre[id].powerup # "none" /\ ~call.pre[id].empty /\ call.result[id].empty) =>
        /\ call.result[id].powerup = "none"
        /\ id \in Range(call.trig)


\* executeCombination was called on a color-bomb and a power-up of the type,
\* in either order, and found its target color next to its second cell
colorBombWith(type) ==
  /\ call.op = "executeCombination"
  /\ {call.pre[call.target].powerup, call.pre[call.with].powerup} = {"color-bomb", type}
  /\ plainNeighboursOf(call.with) # <<>>

\* the cells that hold the target color of the combination as plain gems when
\* the call starts
targetColorCells ==
  {id \in Ids : /\ ~call.pre[id].empty
                /\ call.pre[id].powerup = "none"
                /\ call.pre[id].color = call.pre[plainNeighboursOf(call.with)[1]].color}

\* the cell and the cells up to radius steps from it in its row and its column
blastAround(id, radius) ==
  {other \in Ids :
     \/ /\ call.pre[other].row = call.pre[id].row
        /\ call.pre[other].column \in (call.pre[id].column - radius) .. (call.pre[id].column + radius)
     \/ /\ call.pre[other].column = call.pre[id].column
        /\ call.pre[other].row \in (call.pre[id].row - radius) .. (call.pre[id].row + radius)}

allBlasts(radius) == UNION {blastAround(id, radius) : id \in targetColorCells}

\* every cell of every blast is empty, and with no other power-up in the
\* blasts nothing else was emptied
blastsApplied(radius) ==
  /\ \A id \in allBlasts(radius) : call.result[id].empty
  /\ otherPowerUps(allBlasts(radius) \ {call.with}) = {} =>
       emptyCells(call.result) =
         emptyCells(call.pre) \cup {call.target, call.with} \cup allBlasts(radius)

\* C27: a color-bomb combined with a tnt empties the cross of radius 2 around
\* every plain cell that held the target color when the combination started,
\* a color-bomb combined with a fly-away the cross of radius 1, and nothing
\* beyond the union of these crosses
ColorBombBlastsEveryTargetCell ==
  /\ colorBombWith("tnt") => blastsApplied(2)
  /\ colorBombWith("fly-away") => blastsApplied(1)


\* the cells at most two rows and two columns away from the second cell of the
\* call
blockAroundAnchor ==
  {id \in Ids : /\ call.pre[id].row \in (call.pre[call.with].row - 2) .. (call.pre[call.with].row + 2)
                /\ call.pre[id].column \in
                     (call.pre[call.with].column - 2) .. (call.pre[call.with].column + 2)}

twoTntAlone ==
  /\ call.op = "executeCombination"
  /\ call.pre[call.target].powerup = "tnt"
  /\ call.pre[call.with].powerup = "tnt"
  /\ otherPowerUps(blockAroundAnchor \ {call.with}) = {}

\* C28: executeCombination on two tnt with no other power-up in the block of
\* 5 x 5 cells around its second cell leaves the cells of that block empty and
\* the empty flag of every other cell as it was; the block has 25 cells when
\* the second cell is two cells or more from every edge
TwoTntEmptyBlock ==
  twoTntAlone =>
    /\ emptiedExactly(blockAroundAnchor)
    /\ ( /\ call.pre[call.with].row \in 2 .. (size - 3)
         /\ call.pre[call.with].column \in 2 .. (size - 3) )
       => Cardinality(blockAroundAnchor) = 25

\* two tnt combined away from the edges emptied 25 cells
TwoTntCombinedInside ==
  /\ twoTntAlone
  /\ call.pre[call.with].row \in 2 .. (size - 3)
  /\ call.pre[call.with].column \in 2 .. (size - 3)
  /\ Cardinality(emptyCells(call.result)) = 25


\* ---------------------------------------------------------------- properties of the special patterns

\* a move made while the cascade of a landed fly-away is still running: the
\* fly-away board of the URL under one seed of the random source, and a drawn
\* board; the player presses two cells of the first row, and drags the
\* fly-away onto itself, onto its neighbour or off the board
OverlapPointers == {<<0, 2>>, <<0, 3>>}

OverlapDrops == {<<4, 4>>, <<4, 3>>, <<size, 0>>}

InitOverlap ==
  \/ InitWith("fly-away-test", <<>>, 8, 30, FALSE)
  \/ InitWith("", drawnBoard, 0, 30, FALSE)

NextOverlap ==
  \/ \E p \in OverlapPointers : onPointerDown(p[1], p[2])
  \/ onDragStart(4, 4)
  \/ \E p \in OverlapDrops : onDragEnd(p[1], p[2])
  \/ MoveStep
  \/ FlyAwayStep

SpecOverlap == InitOverlap /\ [][NextOverlap]_vars

\* the scene is at a place where the program calls detectSpecialPatterns next:
\* boardShouldExplode after a swap or at the head of a cascade loop, of a
\* handler or of a landed fly-away
detectsNext ==
  \/ h.pc \in {"swapped", "pu_refilled", "c_refilled"}
  \/ \E i \in 1 .. Len(fly) : fly[i].pc = "f_refilled"
  \/ call.op = "getExplodingChains"

\* the members of a pattern are plain gems of the color of its anchor, which
\* is the upper left cell of a square and the corner of an L
patternWellFormed(st, p) ==
  /\ \A i \in 1 .. Len(p.cells) : plainColored(st, p.cells[i], st.cell[p.cell].color)
  /\ p.cell = p.cells[1]
  /\ p.type = "fly-away" =>
       /\ Len(p.cells) = 4
       /\ \A i \in 1 .. 4 : /\ st.cell[p.cells[i]].row >= st.cell[p.cell].row
                            /\ st.cell[p.cells[i]].column >= st.cell[p.cell].column
  /\ p.type = "tnt" =>
       /\ Len(p.cells) = 5
       /\ Cardinality({i \in 1 .. 5 : st.cell[p.cells[i]].row = st.cell[p.cell].row}) = 3
       /\ Cardinality({i \in 1 .. 5 : st.cell[p.cells[i]].column = st.cell[p.cell].column}) = 3

patternsDisjoint(ps) ==
  \A i \in 1 .. Len(ps), j \in 1 .. Len(ps) :
    i # j => Range(ps[i].cells) \cap Range(ps[j].cells) = {}

\* C29: the patterns detectSpecialPatterns returns on the board the program
\* calls it on share no cell, and the members of each are non-empty cells
\* without power-up of the color of its anchor, the upper left cell of a
\* square or the corner of an L
PatternsAreDisjointAndPlain ==
  detectsNext =>
    /\ patternsDisjoint(detectSpecialPatterns(Scene))
    /\ \A i \in 1 .. Len(detectSpecialPatterns(Scene)) :
         patternWellFormed(Scene, detectSpecialPatterns(Scene)[i])


\* the cells of the special patterns of the board the call started from, and
\* their anchors
patternCells ==
  UNION {Range(detectSpecialPatterns(Pre)[p].cells) : p \in 1 .. Len(detectSpecialPatterns(Pre))}

patternAnchors ==
  {detectSpecialPatterns(Pre)[p].cell : p \in 1 .. Len(detectSpecialPatterns(Pre))}

\* the cells of the chains of four cells or more that share no cell with a
\* special pattern
linearPowerUpCells ==
  UNION {Range(call.chains[m]) :
           m \in {n \in 1 .. Len(call.chains) :
                    Len(call.chains[n]) >= 4 /\ ~sharesSpecialPattern(call.chains[n])}}

\* C30: of a chain that shares a cell with a special pattern,
\* createPowerUpsFromChains makes no cell a rocket or a color-bomb and leaves
\* the cells outside the patterns as they were, unless another chain claims
\* the cell; of the cells in patterns only the anchors become power-ups, a
\* fly-away or a tnt
ChainOfPatternCreatesNothing ==
  call.op = "createPowerUpsFromChains" =>
    \A m \in 1 .. Len(call.chains) :
      sharesSpecialPattern(call.chains[m]) =>
        \A id \in Range(call.chains[m]) \ linearPowerUpCells :
          /\ call.result[id].powerup \in
               (IF id \in patternAnchors THEN {"fly-away", "tnt"} ELSE {"none"})
          /\ id \notin patternCells => call.result[id] = call.pre[id]

\* a chain of four cells or more shared a cell with a special pattern and a
\* cell of it outside the pattern kept its gem
LongChainOfPatternKept ==
  /\ call.op = "createPowerUpsFromChains"
  /\ \E m \in 1 .. Len(call.chains) :
       /\ Len(call.chains[m]) >= 4
       /\ sharesSpecialPattern(call.chains[m])
       /\ \E id \in Range(call.chains[m]) \ patternCells : ~call.result[id].empty

\* ---------------------------------------------------------------- the anchors of a pass

\* a pass of a cascade loop runs in this step: the loop of a move handler, the
\* loop of a landed fly-away, or createPowerUpsFromChains called on its own
passRuns ==
  \/ h.pc \in {"swapped", "pu_refilled", "c_refilled"} /\ h'.pc = "c_destroyed"
  \/ \E i \in 1 .. Len(fly) :
       fly[i].pc = "f_refilled" /\ i <= Len(fly') /\ fly'[i].pc = "f_destroyed"
  \/ call.op = "getExplodingChains" /\ call'.op = "createPowerUpsFromChains"

\* the chain has a cell in one of the special patterns of the scene
chainInPattern(st, chain) ==
  \E p \in 1 .. Len(detectSpecialPatterns(st)) :
    Range(detectSpecialPatterns(st)[p].cells) \cap Range(chain) # {}

\* the cell holds the power-up with its pseudo-color and is not marked empty
holdsPowerUp(after, id, type) ==
  /\ after[id].powerup = type
  /\ after[id].color = type
  /\ ~after[id].empty

\* the anchors the pass chose on the scene it started from hold their
\* power-ups in the cells it left
anchorsHold(st, chains, after) ==
  /\ \A p \in 1 .. Len(detectSpecialPatterns(st)) :
       holdsPowerUp(after, detectSpecialPatterns(st)[p].cell, detectSpecialPatterns(st)[p].type)
  /\ \A m \in 1 .. Len(chains) :
       Len(chains[m]) >= 4 /\ ~chainInPattern(st, chains[m]) =>
         holdsPowerUp(after, chains[m][(Len(chains[m]) \div 2) + 1],
                      chainPowerUpType(st, chains[m]))

\* C31: after one createPowerUpsFromChains pass every anchor of a created
\* power-up, the top-left cell of a square, the corner of an L and the middle
\* cell of a chain that becomes a power-up, holds that power-up, has its color
\* set to the name of the power-up and is not marked empty
AnchorsHoldTheirPowerUp ==
  [][passRuns => anchorsHold(Scene, getExplodingChains(Scene), cell')]_vars

\* ---------------------------------------------------------------- chains of three cells

\* a pass of the cascade loop of a move handler or of a landed fly-away runs
\* in this step, up to the await of destroyCells
passDestroys ==
  \/ h.pc \in {"swapped", "pu_refilled", "c_refilled"} /\ h'.pc = "c_destroyed"
  \/ \E i \in 1 .. Len(fly) :
       fly[i].pc = "f_refilled" /\ i <= Len(fly') /\ fly'[i].pc = "f_destroyed"

\* every chain of exactly three cells is gone: its cells are empty and none of
\* them is a power-up
chainsOfThreeGone(chains, after) ==
  \A m \in 1 .. Len(chains) :
    Len(chains[m]) = 3 =>
      \A i \in 1 .. 3 : after[chains[m][i]].empty /\ after[chains[m][i]].powerup = "none"

anchorsOfPass(st, chains) ==
  {detectSpecialPatterns(st)[p].cell : p \in 1 .. Len(detectSpecialPatterns(st))}
  \cup {chains[m][(Len(chains[m]) \div 2) + 1] :
          m \in {n \in 1 .. Len(chains) :
                   Len(chains[n]) >= 4 /\ ~chainInPattern(st, chains[n])}}

\* every cell of a chain of exactly three gems that is no anchor of the pass
\* is empty and no power-up
chainsOfThreeGoneButAnchors(st, chains, after) ==
  \A m \in 1 .. Len(chains) :
    Len(chains[m]) = 3 /\ st.cell[chains[m][1]].powerup = "none" =>
      \A i \in 1 .. 3 :
        chains[m][i] \notin anchorsOfPass(st, chains) =>
          after[chains[m][i]].empty /\ after[chains[m][i]].powerup = "none"

inSomeChain(chains, id) == \E m \in 1 .. Len(chains) : id \in Range(chains[m])

pointQueryAgrees(st, chains) ==
  \A id \in Ids :
    IF st.cell[id].powerup = "none"
    THEN shouldExplode(st, id) <=> inSomeChain(chains, id)
    ELSE ~shouldExplode(st, id)

\* C34: on every board the scene goes through, shouldExplode of a cell without
\* power-up is true exactly when the cell is in one of the chains
\* getExplodingChains returns, and shouldExplode of a cell with a power-up is
\* false
PointQueryAgreesWithChains == pointQueryAgrees(Scene, getExplodingChains(Scene))

\* a board with a power-up and with a gem that should explode along its
\* column only
ChainsBesidePowerUp ==
  /\ \E id \in Ids : cell[id].powerup # "none" /\ ~cell[id].empty
  /\ \E id \in Ids : ~cell[id].empty /\ shouldExplode(Scene, id)
                     /\ ~shouldExplodeHorizontally(Scene, id)

\* ---------------------------------------------------------------- the board between moves

\* an accepted move has finished and the scene takes the next move
betweenMoves ==
  /\ ~moveInProgress
  /\ h.pc = "idle"
  /\ h.outcome = "accepted"

\* C35: whenever moveInProgress is false after an accepted move has finished,
\* the board is at the fixpoint: no cell is empty and boardShouldExplode() is
\* false
BoardAtFixpointBetweenMoves ==
  betweenMoves => /\ \A id \in Ids : ~cell[id].empty
                  /\ ~boardShouldExplode(Scene)


\* ---------------------------------------------------------------- the game that is over
\* a step of onPointerDown or onDragEnd that gets past the guards: the handler
\* is not running, and the step selects, deselects, drops or starts a move
inputStep ==
  /\ InputAccepted
  /\ \/ h' # h
     \/ selectedCell' # selectedCell
     \/ draggedCell' # draggedCell

\* C36: once isGameOver is true no move is accepted: a step of onPointerDown or
\* of onDragEnd changes neither the grid nor the score nor the move counter,
\* and the move counter is not below 0
GameOverAcceptsNoMove ==
  [][isGameOver =>
       /\ moves >= 0
       /\ inputStep => UNCHANGED <<board, cell, score, moves>>]_vars


\* ---------------------------------------------------------------- empty cells and power-ups
\* C37: in every reachable state no cell is marked empty and holds a power-up
\* at the same time
NoEmptyCellHoldsPowerUp ==
  \A id \in Ids : ~(cell[id].empty /\ cell[id].powerup # "none")


\* ---------------------------------------------------------------- a new game
\* the NEW_GAME event is sent between two moves, with no cell selected or
\* dragged and no fly-away in flight, so that no cell of the old board is
\* referenced when the board is replaced
NewGameAsked ==
  /\ InputAccepted
  /\ fly = <<>>
  /\ selectedCell = 0
  /\ draggedCell = 0

\* handleStartNewGame runs startNewGame at once when the game is over and from
\* the callback of the ConfirmPopup otherwise. startNewGame: isGameOver is
\* reset, initBoard draws a new board (or loads the test board of the URL
\* again), then setScore(0) and setMoves(30); the GameSession object is kept
\* and its reset() is not called
startNewGame(testBoard, rows) ==
  /\ NewGameAsked
  /\ testBoard = "" => possibleDraw(rows)
  /\ isGameOver' = FALSE
  /\ Commit(initBoard([board |-> createEmptyBoard.board, cell |-> createEmptyBoard.cell,
                       fly |-> fly, rnd |-> rnd, trig |-> <<>>], testBoard, rows))
  /\ setScore(0)
  /\ moves' = 30
  /\ UNCHANGED <<selectedCell, draggedCell, moveInProgress, gameOverMsg, debugMode, api,
                 spawned, h, call>>

\* the pointers of a game on a drawn board
SessionPointers == {<<0, 2>>, <<0, 3>>, <<4, 3>>, <<4, 4>>}

\* a game on a board drawn by initBoard, with the moves of the URL
InitSession ==
  \E initialMoves \in {1, 30} : InitWith("", drawnBoard, 0, initialMoves, FALSE)

NextSession ==
  \/ \E p \in SessionPointers : onPointerDown(p[1], p[2])
  \/ SwapMatches
  \/ SwapRejected
  \/ SwapBackDone
  \/ CascadeFall
  \/ CascadeRefill
  \/ CascadeNext
  \/ \E rows \in {drawnBoard, lastRowBoard} : startNewGame("", rows)

SpecSession == InitSession /\ [][NextSession]_vars

newGameStarts == \E rows \in {drawnBoard, lastRowBoard} : startNewGame("", rows)

\* C38: the session's score is the score of the game and its move count is the
\* number of moves accepted since the game started: a step that takes a move
\* from the move counter adds one to the session, and right after startNewGame
\* the session reports 0 moves and score 0
SessionFollowsTheGame ==
  [][/\ session'.score = score'
     /\ IF newGameStarts
        THEN session' = [moves |-> 0, score |-> 0]
        ELSE session'.moves - session.moves = moves - moves']_vars


\* ---------------------------------------------------------------- a chain is scored once
\* the cells of the chains a loop holds between its destroyCells and the next
\* turn: the chains of the pass it scores
cellsOf(chain) == Range(chain)

handlerChains ==
  IF h.pc \in {"c_destroyed", "c_fallen", "c_refilled"}
  THEN {cellsOf(h.chains[m]) : m \in 1 .. Len(h.chains)}
  ELSE {}

flyAwayChains(i) ==
  IF fly[i].pc \in {"f_destroyed", "f_fallen", "f_refilled"}
  THEN {cellsOf(fly[i].chains[m]) : m \in 1 .. Len(fly[i].chains)}
  ELSE {}

\* a chain whose cells a pass has destroyed and no refill has replaced
alreadyDestroyed(chain) == \A k \in 1 .. Len(chain) : cell[chain[k]].empty

\* a pass of the handler's loop, and a pass of the loop of fly-away i
handlerPasses == h.pc \in {"swapped", "pu_refilled", "c_refilled"} /\ h'.pc = "c_destroyed"

flyAwayPasses(i) ==
  /\ i \in 1 .. Len(fly) /\ i \in 1 .. Len(fly')
  /\ fly[i].pc = "f_refilled" /\ fly'[i].pc = "f_destroyed"

detectsAgain(chains, others) ==
  \E m \in 1 .. Len(chains) :
    alreadyDestroyed(chains[m]) /\ cellsOf(chains[m]) \in others

\* C39: a chain is scored at most once: a pass of one of the two loops, the
\* handler's and a fly-away callback's, never detects (and then scores) a chain
\* of destroyed cells that the other loop detected and scores
ChainIsScoredOnce ==
  [][/\ handlerPasses =>
          \A i \in 1 .. Len(fly) :
            ~detectsAgain(getExplodingChains(Scene), flyAwayChains(i))
     /\ \A i \in 1 .. Len(fly) :
          flyAwayPasses(i) => ~detectsAgain(getExplodingChains(Scene), handlerChains)]_vars

====
